---- MODULE Spec2Model ----
(***************************************************************************)
(* Gallery scraper: the per-item interaction cycle                         *)
(* (scrape_single_subcategory of simple_scraper.py, range_scraper.py and   *)
(* image_scraper.py), the retry driver of auto_scraper.py and the catalog  *)
(* reconciler (check_videos_json, find_missing_subcategories).             *)
(*                                                                         *)
(* The browser is the environment: every driver call either raises or has  *)
(* its effect, and what the detail view shows is chosen freely.            *)
(***************************************************************************)
EXTENDS Integers, Sequences, FiniteSets, TLC

\* ---------------------------------------------------------------- bounds
MaxItems == 2      \* figures enumerated on one gallery page
MaxSubs == 3       \* catalog entries read by one reconciler scan
MaxDirs == 2       \* child directories listed under the scan root
MaxCount == 3      \* records in one persisted record file
MaxWork == 3       \* entries of the worklist one run is given
MaxBatch == 4      \* records of the set handed to one save
MaxPasses == 16    \* passes of one content-loader call that are followed

\* ------------------------------------------------------ program constants
MaxAttempts == 3          \* for retry in range(3)
max_retries == 2          \* scrape_subcategory_with_retry(..., max_retries=2)
PopulatedAbove == 2       \* elif count <= 2 -> 'single_item'
MaxScrollRange == 10      \* range_scraper: max_scroll_attempts = 10
MaxScrollImage == 15      \* image_scraper: max_scroll_attempts = 15
StableNeeded == 3         \* image_scraper: consecutive_same_height < 3

\* ------------------------------------------------------------ value sets
NONE == "None"                                  \* Python None
Variants == {"simple", "range", "image"}
HttpUrls == {"http://u1", "http://u2"}
FigureUrls == {NONE, "blob:x", "http://u1"}    \* src attribute of the figure
FigureIds == {NONE, "ab12cd34"}
Prompts == {"p1"}

Truthy(x) == x # NONE /\ x # ""
StartsWithHttp(s) == Len(s) >= 4 /\ SubSeq(s, 1, 4) = "http"

VARIABLES
    variant,            \* which scraper class runs
    pc,                 \* position in the code
    nfig,               \* len(figures)
    i,                  \* enumerate index of the item loop (0-based)
    figure_video_url,   \* figure_video_url / figure_image_url
    figure_id,
    retry,              \* loop variable of the extraction retry loop
    extracted_data,     \* last value returned by extract_prompt_from_popup
    videos_data,        \* videos_data / images_data
    openViews,          \* items whose detail view is open in the browser
    log,                \* <<item, tag>> warnings and errors logged per item
    opened,             \* history: items for which a click returned normally
    extractCalls,       \* history: extractor calls made for the current item
    closedSinceOpen,    \* history: close_popup outcome since the last open click
    recItem,            \* history: per record, the item it was appended for
    uniqueAt,           \* history: attempt that returned a not-yet-collected URL
    uniqueData,         \* history: what that attempt returned
    retried,            \* history: the retry loop closed and re-opened this item
    scroll_attempts,    \* content loader: passes of the scroll loop counted so far
    consecutive_same_height,  \* content loader (image_scraper): unchanged extents in a row
    last_height,        \* content loader: the page extent last measured (its class)
    catalog,            \* reconciler history: catalog entries read so far
    worklist,           \* reconciler: missing_subcategories
    rpc,                \* reconciler: position in find_missing_subcategories
    rootMeta,           \* reconciler: what root_dir/metadata.json turned out to be
    curDir,             \* reconciler: number of the os.listdir item being visited
    unreadable,         \* reconciler history: directories whose metadata.json did not load
    attempt,            \* retry driver: loop variable of scrape_subcategory_with_retry
    wpc,                \* retry driver: position in scrape_subcategory_with_retry
    result,             \* retry driver: value returned
    scrapeCalls,        \* retry driver history: calls of scrape_single_subcategory
    store,              \* the persisted record file (videos.json) of the subsection
    max_subcategories,  \* run: the cap argument (None when not given)
    dry_run,            \* run: the dry-run flag
    missing_subcategories,  \* run: the list the run works on
    runpc,              \* run: position in run_automated_scraping
    processed_count,    \* run: self.processed_count
    failed_count,       \* run: self.failed_count
    attempted,          \* run history: entries handed to scrape_subcategory_with_retry
    outcomes,           \* run history: how each of those calls ended
    driver,             \* run: self.driver ("None", "open" or "quit")
    written,            \* run history: entries whose record file was written
    interrupted,        \* run history: a KeyboardInterrupt ended the loop
    staleSession,       \* run history: a driver call raised on the browser held now
    scrapedOnStale,     \* run history: a scrape ran on a browser that had raised
    csv_file,           \* the persisted videos.csv of the subsection
    images_file,        \* the persisted images.csv and images.json of the subsection
    savepc,             \* record store: how often the collected set was handed to a save
    before,             \* record store history: the files before the latest save
    saveOutcomes,       \* record store history: how each save ended
    comp                \* the component followed on its own: a record of its state

cycleVars == <<variant, pc, nfig, i, figure_video_url, figure_id,
               retry, extracted_data, videos_data, openViews, log, opened,
               extractCalls, closedSinceOpen, recItem, uniqueAt, uniqueData,
               retried, scroll_attempts, consecutive_same_height, last_height>>
loadVars == <<scroll_attempts, consecutive_same_height, last_height>>
reconVars == <<catalog, worklist, rpc, rootMeta, curDir, unreadable>>
retryVars == <<attempt, wpc, result, scrapeCalls, store>>
runVars == <<max_subcategories, dry_run, missing_subcategories, runpc, processed_count,
             failed_count, attempted, outcomes, driver, written, interrupted,
             staleSession, scrapedOnStale>>
saveVars == <<csv_file, images_file, savepc, before, saveOutcomes>>
extraVars == <<comp>>
vars == <<cycleVars, reconVars, retryVars, runVars, saveVars, extraVars>>

\* the fields of comp: those of the catalog writer, of one call of the
\* content loader, of the cancellation, or of the item enumerator
metadata == comp.metadata                   \* catalog writer: the metadata.json of one category
video_analyses == comp.video_analyses       \* catalog writer: analyses of the category's record files
mpc == comp.mpc                             \* catalog writer: position in MetadataUpdater.run
metaBefore == comp.metaBefore               \* catalog writer history: metadata.json before the update
updateResult == comp.updateResult           \* catalog writer: value returned by update_metadata_json
passes == comp.passes                       \* content loader history: scroll passes made by this call
unchangedRun == comp.unchangedRun           \* content loader history: unchanged extents measured in a row
loaderExit == comp.loaderExit               \* content loader history: how the call ended
signalledAt == comp.signalledAt             \* cancellation history: <<item>> in flight when the interrupt came
epc == comp.epc                             \* item enumerator: position in the cascade
strategy == comp.strategy                   \* item enumerator: the strategy tried next (1 = first)
figures == comp.figures                     \* item enumerator: figures
tried == comp.tried                         \* item enumerator history: per strategy tried, what it found

\* ------------------------------------------------- the detail extractor
NoData == [none |-> TRUE, video_url |-> NONE, prompt |-> NONE]

\* What extract_prompt_from_popup can return.  simple_scraper: None, or a
\* dict whose video_url and prompt may each be None.  range and image
\* scraper: always a dict, prompt 'No prompt found' when nothing was found,
\* and the error dict of the outer except.
ExtractResults(v) ==
    IF v = "simple"
    THEN {NoData} \cup
         {[none |-> FALSE, video_url |-> u, prompt |-> p] :
              u \in {NONE} \cup HttpUrls, p \in {NONE} \cup Prompts}
    ELSE {[none |-> FALSE, video_url |-> u, prompt |-> p] :
              u \in {NONE} \cup HttpUrls, p \in {"No prompt found"} \cup Prompts}
         \cup {[none |-> FALSE, video_url |-> NONE, prompt |-> "Error extracting prompt"]}

DataTruthy(d) == ~d.none

\* ------------------------------------------------------------- records
Item == i + 1                                   \* position in the item loop
PlaceholderPrefix(v) == IF v = "image" THEN "placeholder_image_" ELSE "placeholder_video_"
DirectIndex(v) == IF v = "image" THEN nfig - i ELSE i + 1

\* existing_urls = [v.get('video_url') for v in videos_data if v.get('video_url')]
ExistingUrls(data) == {data[j].video_url : j \in {n \in 1..Len(data) : Truthy(data[n].video_url)}}

\* if not final_video_url and figure_id: placeholder_video_{figure_id}
\* elif not final_video_url: placeholder_video_{i+1}
WithPlaceholder(v, u, fid, idx) ==
    IF ~Truthy(u) /\ Truthy(fid) THEN PlaceholderPrefix(v) \o fid
    ELSE IF ~Truthy(u) THEN PlaceholderPrefix(v) \o ToString(idx + 1)
    ELSE u

\* the record appended after the retry loop
FinalRecord(v, d, fig_url, fid, idx) ==
    IF DataTruthy(d) /\ (Truthy(d.prompt) \/ Truthy(d.video_url))
    THEN [video_url |-> WithPlaceholder(v, IF Truthy(d.video_url) THEN d.video_url ELSE fig_url,
                                        fid, idx),
          prompt |-> d.prompt, figure_index |-> idx + 1, figure_id |-> fid]
    ELSE [video_url |-> WithPlaceholder(v, fig_url, fid, idx),
          prompt |-> "No prompt found", figure_index |-> idx + 1, figure_id |-> fid]

\* the record appended on the direct-URL path
DirectRecord(v, d, fig_url, fid) ==
    [video_url |-> fig_url,
     prompt |-> IF DataTruthy(d) THEN d.prompt ELSE "No prompt found",
     figure_index |-> DirectIndex(v), figure_id |-> fid]

\* ------------------------------------------------ the interaction cycle
histVars == <<opened, extractCalls, closedSinceOpen, recItem, uniqueAt, uniqueData,
              retried>>
itemVars == <<figure_video_url, figure_id, retry, extracted_data>>
restUnchanged == UNCHANGED <<reconVars, retryVars, runVars, saveVars, extraVars>>
\* the steps of the item loop do not touch the locals of the content loader
afterLoad == restUnchanged /\ UNCHANGED loadVars

\* `continue`: the for loop takes the next item
Continue == /\ i' = i + 1
            /\ pc' = "loop"

\* the locals of one iteration are dead once it ends (the next iteration
\* assigns each of them before reading it)
DropLocals ==
    /\ figure_video_url' = NONE /\ figure_id' = NONE
    /\ retry' = 0 /\ extracted_data' = NoData
    /\ extractCalls' = 0 /\ uniqueAt' = 0 /\ uniqueData' = NoData
    /\ retried' = FALSE

\* close_popup: some method of the cascade closes the view, or none does
\* (the scraper goes on either way; the return value is not read)
ClosePopup(ok) ==
    /\ openViews' = IF ok THEN {} ELSE openViews
    /\ closedSinceOpen' = IF ok THEN "ok" ELSE "failed"

\* a click on the item's link returned normally: its detail view opens
OpenView ==
    /\ openViews' = openViews \cup {Item}
    /\ opened' = opened \cup {Item}
    /\ closedSinceOpen' = "none"

\* setup_driver, driver.get and the wait for <body>; a failure is re-raised to
\* the function's outer `except Exception`, which returns []
Navigate ==
    /\ pc = "nav"
    /\ \E ok \in BOOLEAN :
          IF ok THEN /\ pc' = "scroll_load"
                     /\ openViews' = {}
                     /\ UNCHANGED log
                ELSE /\ pc' = "returned"
                     /\ log' = log \cup {<<0, "navigation_error">>}
                     /\ UNCHANGED openViews
    /\ UNCHANGED <<variant, nfig, i, itemVars, videos_data, histVars>>
    /\ afterLoad

\* the content loader returns: its locals are gone
LoaderReturns ==
    /\ scroll_attempts' = 0 /\ consecutive_same_height' = 0 /\ last_height' = 0

\* does the scroll loop make another pass
\*   simple_scraper: while True
\*   range_scraper:  while scroll_attempts < max_scroll_attempts
\*   image_scraper:  while scroll_attempts < max_scroll_attempts and consecutive_same_height < 3
LoopCondition(v) ==
    CASE v = "simple" -> TRUE
      [] v = "range" -> scroll_attempts < MaxScrollRange
      [] v = "image" -> /\ scroll_attempts < MaxScrollImage
                        /\ consecutive_same_height < StableNeeded

\* one pass of the scroll loop with the extent it measured: page extents are
\* only compared for equality, so an extent that differs from the last one is
\* modelled by the other of two values
ScrollPass(v, new_height) ==
    IF new_height = last_height
    THEN IF v = "image"
         THEN /\ consecutive_same_height' = consecutive_same_height + 1
              /\ scroll_attempts' = scroll_attempts + 1
              /\ UNCHANGED <<last_height, pc>>
         ELSE \* break
              /\ LoaderReturns
              /\ pc' = "enumerate"
    ELSE /\ last_height' = new_height
         /\ consecutive_same_height' = 0
         /\ scroll_attempts' = IF v = "simple" THEN scroll_attempts
                                ELSE scroll_attempts + 1
         /\ UNCHANGED pc

\* scroll_to_load_all_content: one pass of its loop, the end of the loop, or
\* a driver call that raises.  The exception is logged by the loader itself
\* ("caught"); in image_scraper the handler makes a driver call of its own,
\* and when that raises too the scrape's outer handler returns [] ("raised")
LoaderSteps == {"pass", "end", "caught", "raised"}
ScrollStep(how, new_height) ==
    /\ pc = "scroll_load"
    /\ CASE how = "pass" -> /\ LoopCondition(variant)
                            /\ ScrollPass(variant, new_height)
         [] how = "end" -> /\ ~LoopCondition(variant)
                           /\ LoaderReturns
                           /\ pc' = "enumerate"
         [] how = "caught" -> /\ LoaderReturns
                              /\ pc' = "enumerate"
         [] how = "raised" -> /\ variant = "image"
                              /\ LoaderReturns
                              /\ pc' = "returned"
    /\ UNCHANGED <<variant, nfig, i, itemVars, videos_data, openViews, log, histVars>>

ScrollToLoad ==
    /\ \E how \in LoaderSteps, new_height \in {0, 1} : ScrollStep(how, new_height)
    /\ restUnchanged

\* find_all_video_figures; `if not figures: return []`
Enumerate ==
    /\ pc = "enumerate"
    /\ \E n \in 0..MaxItems :
          /\ nfig' = n
          /\ pc' = IF n = 0 THEN "returned" ELSE "loop"
    /\ UNCHANGED <<variant, i, itemVars, videos_data, openViews, log,
                   histVars>>
    /\ afterLoad

\* where the item goes once its clickable link is known
AfterLink(v, fig_url) ==
    IF Truthy(fig_url) /\ StartsWithHttp(fig_url) THEN "direct"
    ELSE IF v = "image" THEN "click" ELSE "scroll"

\* top of the loop body: read the figure's own media URL and identifier and
\* find its clickable link
StartItem ==
    /\ pc = "loop" /\ i < nfig
    /\ \E fu \in FigureUrls, fid \in FigureIds, hasLink \in BOOLEAN, indicatorOk \in BOOLEAN :
          /\ UNCHANGED <<retry, extracted_data, extractCalls, uniqueAt, uniqueData>>
          /\ IF variant = "image"
             THEN \* addActionIndicator is outside every inner try; the link falls
                  \* back to the figure itself
                  /\ hasLink
                  /\ figure_video_url' = fu /\ figure_id' = fid
                  /\ pc' = IF indicatorOk THEN AfterLink(variant, fu) ELSE "handler"
                  /\ UNCHANGED <<i, log>>
             ELSE /\ indicatorOk
                  /\ IF hasLink
                     THEN /\ figure_video_url' = fu /\ figure_id' = fid
                          /\ pc' = AfterLink(variant, fu)
                          /\ UNCHANGED <<i, log>>
                     ELSE /\ fu = NONE /\ fid = NONE
                          /\ UNCHANGED <<figure_video_url, figure_id>>
                          /\ log' = log \cup {<<Item, "no_link">>}
                          /\ Continue
    /\ UNCHANGED <<variant, nfig, videos_data, openViews, opened,
                   closedSinceOpen, recItem, retried>>
    /\ afterLoad

\* direct-URL path: native click, then script click; one of them opens the
\* view, or both raise, the error is logged and control falls through to the
\* modal path
DirectClick ==
    /\ pc = "direct"
    /\ \E clicked \in BOOLEAN :
          IF clicked
          THEN /\ OpenView
               /\ pc' = "direct_extract"
               /\ UNCHANGED log
          ELSE /\ log' = log \cup {<<Item, "direct_click_failed">>}
               /\ pc' = IF variant = "image" THEN "click" ELSE "scroll"
               /\ UNCHANGED <<openViews, opened, closedSinceOpen>>
    /\ UNCHANGED <<variant, nfig, i, itemVars, videos_data,
                   extractCalls, recItem, uniqueAt, uniqueData, retried>>
    /\ afterLoad

\* mutant: the `continue` of the direct path is missing, control falls through
AfterDirectAppendFallsThrough(rec) == "click"

\* after the record of the direct path is appended: prompt[:50] raises
\* TypeError when the popup gave prompt None
AfterDirectAppend(rec) == IF rec.prompt = NONE THEN "handler" ELSE "close"

\* direct-URL path: the prompt comes from the popup, the URL from the figure
DirectExtract ==
    /\ pc = "direct_extract"
    /\ \E d \in ExtractResults(variant) :
          /\ videos_data' = Append(videos_data,
                                   DirectRecord(variant, d, figure_video_url, figure_id))
          /\ pc' = AfterDirectAppend(DirectRecord(variant, d, figure_video_url, figure_id))
    /\ extractCalls' = extractCalls + 1
    /\ recItem' = Append(recItem, Item)
    /\ figure_video_url' = NONE /\ figure_id' = NONE
    /\ UNCHANGED <<variant, nfig, i, retry, extracted_data,
                   openViews, log, opened, closedSinceOpen, uniqueAt, uniqueData,
                   retried>>
    /\ afterLoad

\* scrollIntoView before the modal click; not inside an inner try
ScrollIntoView ==
    /\ pc = "scroll"
    /\ \E ok \in BOOLEAN : pc' = IF ok THEN "click" ELSE "handler"
    /\ UNCHANGED <<variant, nfig, i, itemVars, videos_data, openViews,
                   log, histVars>>
    /\ afterLoad

\* mutant: `break` in place of `continue`
BreakOnClickFailure == /\ pc' = "returned"
                       /\ i' = i

\* what the loop does when every click mechanism raised
AfterClickFailure == Continue

\* modal path: native click, script click, ActionChains; one of them opens the
\* view, or all three raise and the item is skipped
ModalClick ==
    /\ pc = "click"
    /\ \E clicked \in BOOLEAN :
          IF clicked
          THEN /\ OpenView
               /\ pc' = "extract"
               /\ UNCHANGED <<i, log>>
          ELSE /\ log' = log \cup {<<Item, "click_failed">>}
               /\ AfterClickFailure
               /\ UNCHANGED <<openViews, opened, closedSinceOpen>>
    /\ figure_video_url' = IF pc' = "loop" THEN NONE ELSE figure_video_url
    /\ figure_id' = IF pc' = "loop" THEN NONE ELSE figure_id
    /\ UNCHANGED <<variant, nfig, retry, extracted_data, videos_data,
                   extractCalls, recItem, uniqueAt, uniqueData, retried>>
    /\ afterLoad

\* mutant: one pass too many
RetryContinuesOneMore(r) == r < MaxAttempts

\* `for retry in range(3)`: is there another pass after pass r
RetryContinues(r) == r + 1 < MaxAttempts

\* mutant: nothing is appended when the popup gave neither prompt nor URL
AppendFinalDropsEmpty(data, v, d, fig_url, fid, idx) ==
    IF DataTruthy(d) /\ (Truthy(d.prompt) \/ Truthy(d.video_url))
    THEN Append(data, FinalRecord(v, d, fig_url, fid, idx))
    ELSE data

\* videos_data after the retry loop: a record is appended in both branches
AppendFinal(data, v, d, fig_url, fid, idx) ==
    Append(data, FinalRecord(v, d, fig_url, fid, idx))

\* the retry loop is left (break, or range(3) exhausted) with extracted_data = d:
\* the record is built and appended, close_popup comes next.  The locals the
\* record was built from are not read again in this iteration.
LeaveRetryLoop(d) ==
    /\ videos_data' = AppendFinal(videos_data, variant, d, figure_video_url, figure_id, i)
    /\ recItem' = IF Len(videos_data') > Len(videos_data)
                  THEN Append(recItem, Item) ELSE recItem
    /\ pc' = "close"
    /\ figure_video_url' = NONE /\ figure_id' = NONE
    /\ retry' = 0 /\ extracted_data' = NoData

\* the retry loop goes on; extracted_data is read again only by the re-open
\* step (the next pass assigns it before reading it)
StayInRetryLoop(next, d) ==
    /\ pc' = next
    /\ extracted_data' = IF next = "reopen" THEN d ELSE NoData
    /\ UNCHANGED <<videos_data, recItem, figure_video_url, figure_id>>

\* one pass of the retry loop: extract_prompt_from_popup and the uniqueness test
Extract ==
    /\ pc = "extract"
    /\ \E d \in ExtractResults(variant) :
          IF DataTruthy(d) /\ Truthy(d.video_url)
          THEN IF d.video_url \notin ExistingUrls(videos_data)
               THEN \* unique: break
                    /\ LeaveRetryLoop(d)
                    /\ uniqueAt' = extractCalls + 1
                    /\ uniqueData' = d
               ELSE \* duplicate: close and re-open
                    /\ StayInRetryLoop("reopen", d)
                    /\ UNCHANGED <<retry, uniqueAt, uniqueData>>
          ELSE \* no URL: next pass
               /\ IF RetryContinues(retry)
                  THEN /\ StayInRetryLoop("extract", d)
                       /\ retry' = retry + 1
                  ELSE LeaveRetryLoop(d)
               /\ UNCHANGED <<uniqueAt, uniqueData>>
    /\ extractCalls' = extractCalls + 1
    /\ UNCHANGED <<variant, nfig, i, openViews, log, opened, closedSinceOpen, retried>>
    /\ afterLoad

\* duplicate URL: close_popup, then the script click; `except: break`
Reopen ==
    /\ pc = "reopen"
    /\ \E closeOk \in BOOLEAN, clickOk \in BOOLEAN :
          IF clickOk
          THEN /\ openViews' = (IF closeOk THEN {} ELSE openViews) \cup {Item}
               /\ closedSinceOpen' = "none"
               /\ retried' = TRUE
               /\ IF RetryContinues(retry)
                  THEN /\ StayInRetryLoop("extract", extracted_data)
                       /\ retry' = retry + 1
                  ELSE LeaveRetryLoop(extracted_data)
          ELSE /\ ClosePopup(closeOk)
               /\ LeaveRetryLoop(extracted_data)
               /\ UNCHANGED retried
    /\ UNCHANGED <<variant, nfig, i, log, opened, extractCalls, uniqueAt, uniqueData>>
    /\ afterLoad

\* close_popup at the end of an item, then the next item
CloseItem ==
    /\ pc = "close"
    /\ \E ok \in BOOLEAN : ClosePopup(ok)
    /\ Continue /\ DropLocals
    /\ UNCHANGED <<variant, nfig, videos_data, log, opened, recItem>>
    /\ afterLoad

\* mutant: no handler closes the popup
HandlerNeverCloses(v) == FALSE

\* does the per-item `except Exception` call close_popup before `continue`
HandlerCloses(v) == v # "range"

\* the per-item `except Exception`
Handler ==
    /\ pc = "handler"
    /\ log' = log \cup {<<Item, "error">>}
    /\ IF HandlerCloses(variant)
       THEN \E ok \in BOOLEAN : ClosePopup(ok)
       ELSE UNCHANGED <<openViews, closedSinceOpen>>
    /\ Continue /\ DropLocals
    /\ UNCHANGED <<variant, nfig, videos_data, opened, recItem>>
    /\ afterLoad

\* the loop is exhausted: return videos_data
Return ==
    /\ pc = "loop" /\ i = nfig
    /\ pc' = "returned"
    /\ UNCHANGED <<variant, nfig, i, itemVars, videos_data, openViews,
                   log, histVars>>
    /\ afterLoad

CycleLocals ==
    /\ nfig = 0 /\ i = 0
    /\ figure_video_url = NONE /\ figure_id = NONE
    /\ retry = 0
    /\ extracted_data = NoData
    /\ videos_data = <<>>
    /\ openViews = {}
    /\ log = {}
    /\ opened = {}
    /\ extractCalls = 0
    /\ closedSinceOpen = "none"
    /\ recItem = <<>>
    /\ uniqueAt = 0 /\ uniqueData = NoData
    /\ retried = FALSE
    /\ scroll_attempts = 0 /\ consecutive_same_height = 0 /\ last_height = 0

\* a scraper of any of the three classes enters scrape_single_subcategory
InitCycle ==
    /\ variant \in Variants
    /\ pc = "nav"
    /\ CycleLocals

\* no scrape is running (AutomatedVideoScraper is a SimpleVideoScraper)
CycleIdle ==
    /\ variant = "simple"
    /\ pc = "idle"
    /\ CycleLocals

ReconIdle ==
    /\ catalog = <<>> /\ worklist = <<>> /\ rpc = "idle" /\ rootMeta = "none"
    /\ curDir = 0 /\ unreadable = {}

RetryIdle ==
    /\ attempt = 0 /\ wpc = "idle" /\ result = "none" /\ scrapeCalls = 0
    /\ store = <<>>

\* run_automated_scraping was not called: the counters are those of __init__
RunIdle ==
    /\ max_subcategories = <<>> /\ dry_run = FALSE /\ missing_subcategories = <<>>
    /\ runpc = "idle" /\ processed_count = 0 /\ failed_count = 0
    /\ attempted = <<>> /\ outcomes = <<>> /\ driver = NONE /\ written = {}
    /\ interrupted = FALSE
    /\ staleSession = FALSE /\ scrapedOnStale = FALSE

\* no file of the subsection exists
NoCsv == [header |-> <<>>, rows |-> <<>>]
NoImagesJson == [timestamp |-> 0, category |-> "", total_images |-> 0, images |-> <<>>]
NoImages == [csv |-> NoCsv, json |-> NoImagesJson]

SaveIdle ==
    /\ csv_file = NoCsv /\ images_file = NoImages /\ savepc = "idle"
    /\ before = <<<<>>, NoCsv, NoImages>> /\ saveOutcomes = <<>>

\* no metadata.json is being updated
NoMetadata == [kind |-> "absent", sub_categories |-> <<>>]
\* no component is followed on its own and no interrupt was delivered
CompIdle == [signalledAt |-> <<>>]

ExtraIdle == comp = CompIdle

Init == InitCycle /\ ReconIdle /\ RetryIdle /\ RunIdle /\ SaveIdle /\ ExtraIdle

Next ==
    \/ Navigate
    \/ ScrollToLoad
    \/ Enumerate
    \/ StartItem
    \/ DirectClick
    \/ DirectExtract
    \/ ScrollIntoView
    \/ ModalClick
    \/ Extract
    \/ Reopen
    \/ CloseItem
    \/ Handler
    \/ Return

Spec == Init /\ [][Next]_vars

\* =========================================================== reconciler
\* what the record file videos.json of a subsection can be: absent, not
\* parsable as JSON, a JSON value that is not a list, or a list of records
FileStates ==
    {[kind |-> k, len |-> 0] : k \in {"absent", "garbage", "object"}}
        \cup {[kind |-> "list", len |-> n] : n \in 0..MaxCount}

\* subcat.get('link', ''): absent or empty, or the gallery URL
Links == {"", "https://site/sub"}

NoFile == [kind |-> "absent", len |-> 0]

\* a well-formed entry of sub_categories together with its record file; the
\* record file of an entry without a link is never looked at, and is taken
\* to be absent
Entries ==
    {[link |-> l, file |-> f] : l \in Links \ {""}, f \in FileStates}
        \cup {[link |-> "", file |-> NoFile]}

\* mutant: the boundary one lower
FewRecordsBelow(count) == count < PopulatedAbove

\* elif count <= 2
FewRecords(count) == count <= PopulatedAbove

\* check_videos_json: <<status, count>>
check_videos_json(f) ==
    IF f.kind = "absent" THEN <<"missing", 0>>
    ELSE IF f.kind = "garbage" THEN <<"invalid", 0>>       \* json.load raises
    ELSE IF f.kind # "list" THEN <<"invalid", 0>>          \* not isinstance(data, list)
    ELSE IF f.len = 0 THEN <<"empty", 0>>
    ELSE IF FewRecords(f.len) THEN <<"single_item", f.len>>
    ELSE <<"populated", f.len>>

\* mutant: an unreadable record file is trusted
NeedsScrapingTrustsInvalid(status) == status \in {"missing", "empty", "single_item"}

\* if status in ['missing', 'empty', 'single_item', 'invalid']
NeedsScraping(status) == status \in {"missing", "empty", "single_item", "invalid"}

cycleUnchanged == UNCHANGED <<cycleVars, retryVars, runVars, saveVars, extraVars>>

\* body of `for subcat in ...` for a well-formed entry e of directory d:
\* entries without a link are passed over, the others are classified and
\* appended to missing_subcategories when they need scraping
ReadEntry(d, e) ==
    LET r == check_videos_json(e.file)
        k == Len(catalog) + 1
    IN  IF e.link = ""
        THEN /\ catalog' = Append(catalog, [dir |-> d, kind |-> "entry", link |-> e.link,
                                            file |-> e.file, status |-> "unchecked",
                                            count |-> 0])
             /\ UNCHANGED worklist
        ELSE /\ catalog' = Append(catalog, [dir |-> d, kind |-> "entry", link |-> e.link,
                                            file |-> e.file, status |-> r[1],
                                            count |-> r[2]])
             /\ worklist' = IF NeedsScraping(r[1])
                            THEN Append(worklist, [category |-> d, subcategory |-> k,
                                                   url |-> e.link, status |-> r[1],
                                                   current_count |-> r[2]])
                            ELSE worklist

\* an element of sub_categories that is not an object: subcat.get raises
BadEntry(d) ==
    /\ catalog' = Append(catalog, [dir |-> d, kind |-> "bad", link |-> "",
                                   file |-> NoFile,
                                   status |-> "unchecked", count |-> 0])
    /\ UNCHANGED worklist

\* for item in os.listdir(root_dir): the listing is taken
ListDir ==
    /\ rpc' = "listdir"
    /\ curDir' = 0

\* `continue`: on to the next item of the listing, if there is one
NextListed == rpc' = "listdir"

\* root_dir/metadata.json: absent, not loadable, or loaded
RootMetadata ==
    /\ rpc = "start"
    /\ \E m \in {"absent", "malformed", "readable"} :
          /\ rootMeta' = m
          /\ IF m = "readable"
             THEN /\ rpc' = "root_entries"
                  /\ UNCHANGED <<curDir, unreadable>>
             ELSE /\ ListDir
                  /\ unreadable' = IF m = "malformed" THEN unreadable \cup {0}
                                   ELSE unreadable
    /\ UNCHANGED <<catalog, worklist>>
    /\ cycleUnchanged

\* one pass of `for subcat in root_subcategories`; an exception leaves the
\* root branch for the scan of the subdirectories, keeping what was appended
RootEntry ==
    /\ rpc = "root_entries" /\ Len(catalog) < MaxSubs
    /\ \/ /\ \E e \in Entries : ReadEntry(0, e)
          /\ UNCHANGED <<rpc, curDir>>
       \/ /\ BadEntry(0)
          /\ ListDir
    /\ UNCHANGED <<rootMeta, unreadable>>
    /\ cycleUnchanged

\* the root entries are exhausted: return missing_subcategories
RootReturn ==
    /\ rpc = "root_entries"
    /\ rpc' = "done"
    /\ UNCHANGED <<catalog, worklist, rootMeta, curDir, unreadable>>
    /\ cycleUnchanged

\* entries of the root catalog that the standalone branch can find through
\* the parent metadata: those in front of an element that is not an object
ParentEntries ==
    IF rootMeta = "readable"
    THEN {k \in 1..Len(catalog) : catalog[k].dir = 0 /\ catalog[k].kind = "entry"}
    ELSE {}

\* a directory whose metadata lists no sub_categories: its own record file is
\* classified, and it is appended only when the parent metadata gives a link
Standalone(d, f, m) ==
    LET r == check_videos_json(f)
        k == Len(catalog) + 1
        subcat_link == IF m = 0 THEN "" ELSE catalog[m].link
    IN  /\ catalog' = Append(catalog, [dir |-> d, kind |-> "standalone",
                                       link |-> subcat_link, file |-> f,
                                       status |-> r[1], count |-> r[2]])
        /\ worklist' = IF NeedsScraping(r[1]) /\ subcat_link # ""
                       THEN Append(worklist, [category |-> 0, subcategory |-> k,
                                              url |-> subcat_link, status |-> r[1],
                                              current_count |-> r[2]])
                       ELSE worklist

\* one item of os.listdir(root_dir): passed over (not a directory, or a
\* directory without metadata.json), a directory whose metadata.json does not
\* load, a standalone directory, or a category directory with sub_categories
VisitListed ==
    /\ rpc = "listdir" /\ curDir < MaxDirs
    /\ curDir' = curDir + 1
    /\ \E k \in {"passed", "malformed", "standalone", "category"} :
          CASE k = "passed" ->
                   /\ NextListed
                   /\ UNCHANGED <<catalog, worklist, unreadable>>
            [] k = "malformed" ->
                   /\ NextListed
                   /\ unreadable' = unreadable \cup {curDir'}
                   /\ UNCHANGED <<catalog, worklist>>
            [] k = "standalone" ->
                   /\ Len(catalog) < MaxSubs
                   /\ \E f \in FileStates, m \in {0} \cup ParentEntries :
                         Standalone(curDir', f, m)
                   /\ NextListed
                   /\ UNCHANGED unreadable
            [] k = "category" ->
                   /\ Len(catalog) < MaxSubs
                   /\ rpc' = "child_entries"
                   /\ UNCHANGED <<catalog, worklist, unreadable>>
    /\ UNCHANGED rootMeta
    /\ cycleUnchanged

\* entries of the category directory being visited that were read
ReadOfDir(d) == {k \in 1..Len(catalog) : catalog[k].dir = d}

\* one pass of `for subcat in subcategories`; an exception is logged and the
\* scan continues with the next listed item
ChildEntry ==
    /\ rpc = "child_entries" /\ Len(catalog) < MaxSubs
    /\ \/ /\ \E e \in Entries : ReadEntry(curDir, e)
          /\ UNCHANGED rpc
       \/ /\ BadEntry(curDir)
          /\ NextListed
    /\ UNCHANGED <<rootMeta, curDir, unreadable>>
    /\ cycleUnchanged

\* the (non-empty) sub_categories of the directory are exhausted
ChildEnd ==
    /\ rpc = "child_entries" /\ ReadOfDir(curDir) # {}
    /\ NextListed
    /\ UNCHANGED <<catalog, worklist, rootMeta, curDir, unreadable>>
    /\ cycleUnchanged

\* the listing is exhausted: return missing_subcategories
ScanReturn ==
    /\ rpc = "listdir"
    /\ rpc' = "done"
    /\ UNCHANGED <<catalog, worklist, rootMeta, curDir, unreadable>>
    /\ cycleUnchanged

ReconStart ==
    /\ catalog = <<>> /\ worklist = <<>> /\ rpc = "start" /\ rootMeta = "none"
    /\ curDir = 0 /\ unreadable = {}

InitRecon == CycleIdle /\ ReconStart /\ RetryIdle /\ RunIdle /\ SaveIdle /\ ExtraIdle

NextRecon ==
    \/ RootMetadata
    \/ RootEntry
    \/ RootReturn
    \/ VisitListed
    \/ ChildEntry
    \/ ChildEnd
    \/ ScanReturn

SpecRecon == InitRecon /\ [][NextRecon]_vars

\* ========================================================== retry driver
\* save_videos_data: duplicates by video_url are dropped, the first record of
\* each URL is kept, records without a URL are all kept
\* dict.get(key, default)
Get(rec, key, default) == IF key \in DOMAIN rec THEN rec[key] ELSE default

\* the variant without the pass over seen_urls
KeepsAllRecords(data, seen_urls) == data

RECURSIVE unique_videos(_, _)
unique_videos(data, seen_urls) ==
    IF data = <<>> THEN <<>>
    ELSE LET video == Head(data)
             video_url == Get(video, "video_url", "")
         IN  IF Truthy(video_url) /\ video_url \notin seen_urls
             THEN <<video>> \o unique_videos(Tail(data), seen_urls \cup {video_url})
             ELSE IF ~Truthy(video_url)
             THEN <<video>> \o unique_videos(Tail(data), seen_urls)
             ELSE unique_videos(Tail(data), seen_urls)

\* figure_id and figure_index are not written
filtered_video(video) ==
    [k \in DOMAIN video \ {"figure_id", "figure_index"} |-> video[k]]

\* what save_videos_data writes to videos.json
save_videos_data(data) ==
    LET unique == unique_videos(data, {})
    IN  [j \in 1..Len(unique) |-> filtered_video(unique[j])]

\* sorted(list(fieldnames)) for the field names the records can have
FieldOrder == <<"figure_id", "figure_index", "image_url", "prompt", "video_url">>
sorted(fieldnames) ==
    LET Present(f) == f \in fieldnames
    IN  SelectSeq(FieldOrder, Present)

\* the csv module writes None as the empty string
CsvText(x) == IF x = NONE THEN "" ELSE x

\* what save_videos_data writes to videos.csv for the records of videos.json:
\* the header is the sorted union of their keys, a record without a key of the
\* header gets an empty cell
videos_csv(filtered_videos) ==
    LET fieldnames == UNION {DOMAIN filtered_videos[j] : j \in 1..Len(filtered_videos)}
    IN  [header |-> sorted(fieldnames),
         rows |-> [j \in 1..Len(filtered_videos) |->
                      [f \in fieldnames |-> CsvText(Get(filtered_videos[j], f, ""))]]]

\* save_images_data: the records are written as they are, their four fields to
\* images.csv under a fixed header, and to images.json inside an object
ImageFieldnames == <<"image_url", "prompt", "figure_index", "figure_id">>
images_csv(images_data) ==
    [header |-> ImageFieldnames,
     rows |-> [j \in 1..Len(images_data) |->
                  [image_url |-> CsvText(Get(images_data[j], "image_url", "")),
                   prompt |-> CsvText(Get(images_data[j], "prompt", "")),
                   figure_index |-> IF "figure_index" \in DOMAIN images_data[j]
                                    THEN ToString(images_data[j].figure_index) ELSE "",
                   figure_id |-> CsvText(Get(images_data[j], "figure_id", ""))]]]
images_json(images_data, timestamp) ==
    [timestamp |-> timestamp, category |-> "images", total_images |-> Len(images_data),
     images |-> images_data]

\* the variant that opens the file for appending
Appended(old, new) == old \o new

\* open(path, 'w'): what the file held is gone
Overwritten(old, new) == new

\* the file writes of save_videos_data: videos.json first, then videos.csv; an
\* exception can come before the first write or between the two
SaveResults == {"ok", "raised_before_write", "raised_after_write"}
WriteVideos(saved) ==
    /\ store' = IF saved = "raised_before_write" THEN store
                ELSE Overwritten(store, save_videos_data(videos_data))
    /\ csv_file' = IF saved = "ok" THEN videos_csv(save_videos_data(videos_data))
                   ELSE csv_file

\* the file writes of save_images_data: images.csv first, then images.json
WriteImages(saved, timestamp) ==
    images_file' =
        [csv |-> IF saved = "raised_before_write" THEN images_file.csv
                 ELSE images_csv(videos_data),
         json |-> IF saved = "ok" THEN images_json(videos_data, timestamp)
                  ELSE images_file.json]

\* what the detail view gives for one item, when the item is opened at all
ItemData == {NoData, [none |-> FALSE, video_url |-> "http://u1", prompt |-> "p1"]}

\* one iteration of the item loop taken as a whole: the item is skipped, or
\* one record is appended for it
ItemIteration ==
    /\ wpc = "scraping" /\ pc = "loop" /\ i < nfig
    /\ \/ UNCHANGED videos_data
       \/ \E d \in ItemData :
             videos_data' = Append(videos_data, FinalRecord(variant, d, NONE, NONE, i))
    /\ Continue
    /\ UNCHANGED <<variant, nfig, itemVars, openViews, log, histVars>>
    /\ afterLoad

recUnchanged ==
    UNCHANGED <<reconVars, runVars, images_file, savepc, before, saveOutcomes, extraVars>>

\* one pass of `for attempt in range(max_retries + 1)` up to the call of
\* scrape_single_subcategory, which starts with an empty result
CallScrape ==
    /\ wpc = "call"
    /\ wpc' = "scraping"
    /\ scrapeCalls' = scrapeCalls + 1
    /\ pc' = "nav"
    /\ nfig' = 0 /\ i' = 0 /\ videos_data' = <<>>
    /\ UNCHANGED <<variant, itemVars, openViews, log, histVars, loadVars>>
    /\ UNCHANGED <<attempt, result, store, csv_file>>
    /\ recUnchanged

\* the `except Exception` of the retry loop: sleep and next pass while
\* attempt < max_retries, else return False
RetryOrFail ==
    IF attempt < max_retries
    THEN /\ attempt' = attempt + 1
         /\ wpc' = "call"
         /\ UNCHANGED result
    ELSE /\ result' = "False"
         /\ wpc' = "done"
         /\ UNCHANGED attempt

\* scrape_single_subcategory returned videos_data: a non-empty result is saved
\* and True returned, an empty one returns False at once; only an exception
\* (raised by save_videos_data, before or after videos.json was written)
\* reaches the except branch
AfterScrape ==
    /\ wpc = "scraping" /\ pc = "returned"
    /\ pc' = "idle"
    /\ IF videos_data # <<>>
       THEN \E saved \in SaveResults :
              /\ WriteVideos(saved)
              /\ IF saved = "ok"
                 THEN /\ result' = "True"
                      /\ wpc' = "done"
                      /\ UNCHANGED attempt
                 ELSE RetryOrFail
       ELSE /\ result' = "False"
            /\ wpc' = "done"
            /\ UNCHANGED <<attempt, store, csv_file>>
    /\ UNCHANGED scrapeCalls
    /\ UNCHANGED <<variant, nfig, i, itemVars, videos_data, openViews, log, histVars,
                   loadVars>>
    /\ recUnchanged

RetryStart ==
    /\ attempt = 0 /\ wpc = "call" /\ result = "none" /\ scrapeCalls = 0
    /\ store = <<>>

InitRetry == CycleIdle /\ ReconIdle /\ RetryStart /\ RunIdle /\ SaveIdle /\ ExtraIdle

NextRetry ==
    \/ CallScrape
    \/ Navigate
    \/ ScrollToLoad
    \/ Enumerate
    \/ ItemIteration
    \/ Return
    \/ AfterScrape

SpecRetry == InitRetry /\ [][NextRetry]_vars

\* the retry driver is one sequential thread: it takes a step whenever it can
SpecRetryLive == SpecRetry /\ WF_vars(NextRetry)

\* ============================================================ run driver
\* run_automated_scraping works on what find_missing_subcategories returned:
\* here a root catalog of n linked subsections none of which has a record file
ScannedEntry == [dir |-> 0, kind |-> "entry", link |-> "https://site/sub", file |-> NoFile,
                 status |-> "missing", count |-> 0]
MissingEntry(k) == [category |-> 0, subcategory |-> k, url |-> "https://site/sub",
                    status |-> "missing", current_count |-> 0]
ScanReturned(n) ==
    /\ catalog = [k \in 1..n |-> ScannedEntry]
    /\ worklist = [k \in 1..n |-> MissingEntry(k)]
    /\ rpc = "done" /\ rootMeta = "readable" /\ curDir = 0 /\ unreadable = {}

\* --max-subcategories: not given (the empty tuple stands for None), or an int
Caps == {<<>>} \cup {<<k>> : k \in (-1)..(MaxWork + 1)}

\* `if max_subcategories:` is true for an int other than 0
CapApplies(cap) == cap # <<>> /\ cap[1] # 0

\* list[:k]
SliceTo(list, k) ==
    IF k >= 0
    THEN SubSeq(list, 1, IF k < Len(list) THEN k ELSE Len(list))
    ELSE SubSeq(list, 1, IF Len(list) + k > 0 THEN Len(list) + k ELSE 0)

\* the variant that scrapes in spite of the flag
ListOnlyIgnored(flag) == FALSE

\* `if dry_run:` list the entries and return
ListOnly(flag) == flag

runUnchanged == UNCHANGED <<cycleVars, reconVars, retryVars, saveVars, extraVars>>

\* run_automated_scraping up to the item loop: nothing to do for an empty
\* worklist, the cap, and the dry run that only lists
RunStart ==
    /\ runpc = "start"
    /\ missing_subcategories' = IF worklist # <<>> /\ CapApplies(max_subcategories)
                                THEN SliceTo(worklist, max_subcategories[1])
                                ELSE worklist
    /\ runpc' = IF worklist = <<>> \/ ListOnly(dry_run) THEN "returned" ELSE "loop"
    /\ UNCHANGED <<max_subcategories, dry_run, processed_count, failed_count, attempted,
                   outcomes, driver, written, interrupted, staleSession, scrapedOnStale>>
    /\ runUnchanged

\* how one call of scrape_subcategory_with_retry ends for the run
ScrapeOutcomes == {"True", "False", "Exception", "KeyboardInterrupt"}

\* the variant in which `except Exception` ends the loop
ExceptionBreaks == "summary"

\* `except Exception: ...; continue`
AfterException == "loop"

\* mutant: the `except Exception` branch does not count
CountsAsFailedUnlessRaised(outcome) == outcome = "False"

\* `else: self.failed_count += 1` and `except Exception: self.failed_count += 1`
CountsAsFailed(outcome) == outcome \in {"False", "Exception"}

\* setup_driver: `if self.driver is None:` a browser is created, else the
\* instance the object already holds is used for this scrape as well
CreatesDriver(started) == started /\ driver = NONE

\* one pass of `for i, subcategory_info in enumerate(missing_subcategories, 1)`:
\* the entry is scraped (its scrape gets as far as setup_driver or not, a
\* driver call of the scrape raises or not, a record file is written by a
\* save), the outcome is counted, and the pause between entries can be
\* interrupted.  An exception from the driver is caught by
\* scrape_single_subcategory, which returns [] without touching self.driver
ProcessEntry ==
    /\ runpc = "loop" /\ Len(attempted) < Len(missing_subcategories)
    /\ LET pos == Len(attempted) + 1
           info == missing_subcategories[pos]
       IN  \E outcome \in ScrapeOutcomes, started \in BOOLEAN, wrote \in BOOLEAN,
              interrupted_sleep \in BOOLEAN, driver_error \in BOOLEAN :
             /\ outcome = "True" => wrote
             /\ wrote => started
             /\ driver_error => started /\ ~wrote /\ outcome = "False"
             /\ scrapedOnStale' = (scrapedOnStale
                                      \/ (started /\ staleSession /\ ~CreatesDriver(started)))
             /\ staleSession' = (driver_error
                                    \/ (staleSession /\ ~CreatesDriver(started)))
             /\ interrupted_sleep => outcome \in {"True", "False"}
                                     /\ pos < Len(missing_subcategories)
             /\ attempted' = Append(attempted, info.subcategory)
             /\ outcomes' = Append(outcomes, outcome)
             /\ driver' = IF started THEN "open" ELSE driver
             /\ written' = IF wrote THEN written \cup {info.subcategory} ELSE written
             /\ processed_count' = IF outcome = "True" THEN processed_count + 1
                                   ELSE processed_count
             /\ failed_count' = IF CountsAsFailed(outcome) THEN failed_count + 1
                                ELSE failed_count
             /\ runpc' = CASE outcome = "KeyboardInterrupt" -> "summary"
                           [] outcome = "Exception" -> AfterException
                           [] OTHER -> IF interrupted_sleep THEN "summary" ELSE "loop"
             /\ interrupted' = (outcome = "KeyboardInterrupt" \/ interrupted_sleep)
    /\ UNCHANGED <<max_subcategories, dry_run, missing_subcategories>>
    /\ runUnchanged

\* the list is exhausted
LoopEnd ==
    /\ runpc = "loop" /\ Len(attempted) = Len(missing_subcategories)
    /\ runpc' = "summary"
    /\ UNCHANGED <<max_subcategories, dry_run, missing_subcategories, processed_count,
                   failed_count, attempted, outcomes, driver, written, interrupted,
                   staleSession, scrapedOnStale>>
    /\ runUnchanged

\* the final summary divides by processed_count + failed_count; the browser is
\* closed after it
Summary ==
    /\ runpc = "summary"
    /\ IF processed_count + failed_count = 0
       THEN /\ runpc' = "raised"
            /\ UNCHANGED driver
       ELSE /\ runpc' = "returned"
            /\ driver' = IF driver = "open" THEN "quit" ELSE driver
    /\ UNCHANGED <<max_subcategories, dry_run, missing_subcategories, processed_count,
                   failed_count, attempted, outcomes, written, interrupted,
                   staleSession, scrapedOnStale>>
    /\ runUnchanged

\* main: a fresh AutomatedVideoScraper, the arguments of the command line
RunCalled ==
    /\ max_subcategories \in Caps /\ dry_run \in BOOLEAN
    /\ missing_subcategories = <<>> /\ runpc = "start"
    /\ processed_count = 0 /\ failed_count = 0
    /\ attempted = <<>> /\ outcomes = <<>> /\ driver = NONE /\ written = {}
    /\ interrupted = FALSE
    /\ staleSession = FALSE /\ scrapedOnStale = FALSE

InitRun ==
    /\ CycleIdle /\ RetryIdle /\ RunCalled /\ SaveIdle /\ ExtraIdle
    /\ \E n \in 0..MaxWork : ScanReturned(n)

NextRun ==
    \/ RunStart
    \/ ProcessEntry
    \/ LoopEnd
    \/ Summary

SpecRun == InitRun /\ [][NextRun]_vars

\* =========================================================== record store
\* the records a scrape can hand to the save of its variant: a media URL that
\* is a link, empty, or a placeholder token, with one of two prompts, and a
\* record without the URL key
UrlKey(v) == IF v = "image" THEN "image_url" ELSE "video_url"
MediaRecord(v, u, p) ==
    (UrlKey(v) :> u) @@ [prompt |-> p, figure_index |-> 1, figure_id |-> NONE]
SaveRecords(v) ==
    {MediaRecord(v, u, p) : u \in {"http://u1", PlaceholderPrefix(v) \o "1"},
                            p \in {"p1", "p2"}}
        \cup {MediaRecord(v, "", "p1"), [prompt |-> "p1"]}

\* what an earlier scrape of the subsection has left in its files
OldRecord(v) == (UrlKey(v) :> "http://old") @@ [prompt |-> "p0"]
EarlierFiles(v, earlier) ==
    /\ store = IF earlier /\ v # "image" THEN <<OldRecord(v)>> ELSE <<>>
    /\ csv_file = IF earlier /\ v # "image" THEN videos_csv(<<OldRecord(v)>>) ELSE NoCsv
    /\ images_file = IF earlier /\ v = "image"
                     THEN [csv |-> images_csv(<<OldRecord(v)>>),
                           json |-> images_json(<<OldRecord(v)>>, 0)]
                     ELSE NoImages

\* the variant that writes the files for an empty set too
NeverNothing(data) == FALSE

\* `if not videos_data: ... return`
NothingToSave(data) == data = <<>>

\* scrape_single_subcategory appends one more record to videos_data
Collect ==
    /\ savepc = "collecting" /\ Len(videos_data) < MaxBatch
    /\ \E r \in SaveRecords(variant) : videos_data' = Append(videos_data, r)
    /\ UNCHANGED <<variant, pc, nfig, i, itemVars, openViews, log, histVars, loadVars>>
    /\ UNCHANGED <<reconVars, retryVars, runVars, saveVars, extraVars>>

\* save_videos_data / save_images_data is called with videos_data, a first
\* time and once more with the same set
Save ==
    /\ savepc \in {"collecting", "saved"}
    /\ savepc' = IF savepc = "collecting" THEN "saved" ELSE "saved_again"
    /\ before' = <<store, csv_file, images_file>>
    /\ IF NothingToSave(videos_data)
       THEN /\ saveOutcomes' = Append(saveOutcomes, "nothing")
            /\ UNCHANGED <<store, csv_file, images_file>>
       ELSE \E saved \in SaveResults :
              /\ saveOutcomes' = Append(saveOutcomes, saved)
              /\ IF variant = "image"
                 THEN /\ WriteImages(saved, Len(saveOutcomes) + 1)
                      /\ UNCHANGED <<store, csv_file>>
                 ELSE /\ WriteVideos(saved)
                      /\ UNCHANGED images_file
    /\ UNCHANGED <<attempt, wpc, result, scrapeCalls>>
    /\ UNCHANGED <<cycleVars, reconVars, runVars, extraVars>>

InitSave ==
    /\ variant \in Variants /\ pc = "idle" /\ CycleLocals
    /\ ReconIdle /\ RunIdle /\ ExtraIdle
    /\ attempt = 0 /\ wpc = "idle" /\ result = "none" /\ scrapeCalls = 0
    /\ \E earlier \in BOOLEAN : EarlierFiles(variant, earlier)
    /\ savepc = "collecting" /\ before = <<store, csv_file, images_file>>
    /\ saveOutcomes = <<>>

NextSave ==
    \/ Collect
    \/ Save

SpecSave == InitSave /\ [][NextSave]_vars

\* ========================================================= catalog writer
\* names of subsections, in the catalog and as directory names
SubcategoryNames == {"a b", "ab", "c"}

\* str.replace(' ', '')
RECURSIVE WithoutSpaces(_)
WithoutSpaces(s) ==
    IF s = "" THEN ""
    ELSE (IF SubSeq(s, 1, 1) = " " THEN "" ELSE SubSeq(s, 1, 1))
             \o WithoutSpaces(SubSeq(s, 2, Len(s)))

\* an entry of sub_categories: name and link, with or without a stored count
CatalogEntries ==
    {[name |-> n, link |-> "https://site/sub"] : n \in SubcategoryNames}
        \cup {[name |-> n, link |-> "https://site/sub", video_count |-> 2] :
                 n \in SubcategoryNames}

\* the metadata.json of the category: missing, not loadable, an object without
\* sub_categories, or an object with a list of entries
Catalogs ==
    {[kind |-> k, sub_categories |-> <<>>] : k \in {"absent", "garbage", "no_sub_categories"}}
        \cup {[kind |-> "readable", sub_categories |-> subs] :
                 subs \in UNION {[1..n -> CatalogEntries] : n \in 0..MaxSubs}}

Analysed == {video_analyses[k].subcategory_path : k \in 1..Len(video_analyses)}

\* run: one videos.json found by os.walk is analysed; only a JSON list gives
\* an analysis, which is appended to the analyses of the category
AnalyzeVideosJson ==
    /\ mpc = "analysing"
    /\ \E name \in SubcategoryNames \ Analysed, f \in FileStates \ {NoFile} :
          comp' = [comp EXCEPT !.video_analyses =
              IF f.kind = "list"
              THEN Append(video_analyses, [video_count |-> f.len, subcategory_path |-> name,
                                           category_path |-> "category"])
              ELSE video_analyses]
    /\ UNCHANGED <<cycleVars, reconVars, retryVars, runVars, saveVars>>

\* the first analysis whose directory name equals the entry's name, spaces
\* aside; 0 when there is none
MatchingData(subcategory_name) ==
    LET matches == {k \in 1..Len(video_analyses) :
                       \/ video_analyses[k].subcategory_path = subcategory_name
                       \/ WithoutSpaces(video_analyses[k].subcategory_path)
                              = WithoutSpaces(subcategory_name)}
    IN  IF matches = {} THEN 0
        ELSE CHOOSE k \in matches : \A m \in matches : k <= m

\* subcategory['video_count'] = matching_data['video_count'], or 0 without a match
UpdatedEntry(subcategory) ==
    LET k == MatchingData(subcategory.name)
    IN  [f \in DOMAIN subcategory \cup {"video_count"} |->
            IF f = "video_count"
            THEN IF k # 0 THEN video_analyses[k].video_count ELSE 0
            ELSE subcategory[f]]

\* run: the category's metadata.json is looked up and update_metadata_json is
\* called with the analyses of the category; the file is rewritten unless an
\* exception comes first
UpdateMetadataJson ==
    /\ mpc = "analysing" /\ video_analyses # <<>>
    /\ LET called == [comp EXCEPT !.mpc = "updated", !.metaBefore = metadata]
       IN  IF metadata.kind = "absent"
           THEN comp' = called
           ELSE IF metadata.kind # "readable"
           THEN comp' = [called EXCEPT !.updateResult = "False"]
           ELSE \E dumped \in BOOLEAN :
                  comp' = [called EXCEPT
                      !.updateResult = IF dumped THEN "True" ELSE "False",
                      !.metadata =
                          IF dumped
                          THEN [metadata EXCEPT !.sub_categories =
                                   [j \in 1..Len(metadata.sub_categories) |->
                                       UpdatedEntry(metadata.sub_categories[j])]]
                          ELSE metadata]
    /\ UNCHANGED <<cycleVars, reconVars, retryVars, runVars, saveVars>>

InitMeta ==
    /\ variant = "simple" /\ pc = "idle" /\ CycleLocals
    /\ ReconIdle /\ RetryIdle /\ RunIdle /\ SaveIdle
    /\ \E m \in Catalogs :
          comp = [metadata |-> m, video_analyses |-> <<>>, mpc |-> "analysing",
                  metaBefore |-> m, updateResult |-> "none"]

NextMeta ==
    \/ AnalyzeVideosJson
    \/ UpdateMetadataJson

SpecMeta == InitMeta /\ [][NextMeta]_vars

\* ============================================================ one call of the content loader
\* scroll_to_load_all_content followed pass by pass: how many passes the
\* call made, how many unchanged extents it measured in a row, and the
\* statement it ended with (the loop condition, the break, the handler)
Followed(how, new_height) ==
    comp' = [comp EXCEPT
        !.passes = IF how = "pass" THEN passes + 1 ELSE passes,
        !.unchangedRun = IF how # "pass" THEN unchangedRun
                         ELSE IF new_height = last_height THEN unchangedRun + 1
                         ELSE 0,
        !.loaderExit = IF how # "pass" THEN how
                       ELSE IF pc' = "enumerate" THEN "break"
                       ELSE "none"]

LoadAllContent ==
    /\ passes < MaxPasses
    /\ \E how \in LoaderSteps, new_height \in {0, 1} :
          /\ ScrollStep(how, new_height)
          /\ Followed(how, new_height)
    /\ UNCHANGED <<reconVars, retryVars, runVars, saveVars>>

InitLoad ==
    /\ variant \in Variants /\ pc = "scroll_load" /\ CycleLocals
    /\ ReconIdle /\ RetryIdle /\ RunIdle /\ SaveIdle
    /\ comp = [passes |-> 0, unchangedRun |-> 0, loaderExit |-> "none"]

NextLoad == LoadAllContent

SpecLoad == InitLoad /\ [][NextLoad]_vars

\* ============================================================ cancellation of a scrape
\* the positions of the item loop whose driver call runs inside a try with a
\* bare `except:` (which also catches KeyboardInterrupt): find_element for
\* the link (simple_scraper, range_scraper), the native click of the direct
\* path, the native and the script click of the modal path, the script click
\* of the re-open step
BareExcept(v) == IF v = "image" THEN {"direct", "click", "reopen"}
                 ELSE {"loop", "direct", "click", "reopen"}

\* a KeyboardInterrupt is delivered while scrape_single_subcategory runs.
\* Inside a bare `except:` it is swallowed and the statement's failure path
\* is taken: the next click mechanism is tried, the link counts as missing
\* (`continue`), the retry loop is left (`break`).  Anywhere else no handler
\* of the scrape catches it (`except Exception`) and the scrape is left
Interrupt ==
    /\ signalledAt = <<>>
    /\ pc \in {"nav", "scroll_load", "enumerate", "loop", "direct", "direct_extract",
               "scroll", "click", "extract", "reopen", "close", "handler"}
    /\ comp' = [comp EXCEPT !.signalledAt = <<Item>>]
    /\ \E swallowed \in BOOLEAN :
          /\ swallowed => pc \in BareExcept(variant) /\ (pc = "loop" => i < nfig)
          /\ CASE swallowed /\ pc = "reopen" ->
                    /\ \E closeOk \in BOOLEAN : ClosePopup(closeOk)
                    /\ LeaveRetryLoop(extracted_data)
                    /\ UNCHANGED <<i, log, opened, extractCalls, uniqueAt, uniqueData,
                                   retried>>
               [] swallowed /\ pc = "loop" ->
                    /\ log' = log \cup {<<Item, "no_link">>}
                    /\ Continue
                    /\ UNCHANGED <<itemVars, videos_data, openViews, histVars>>
               [] OTHER ->
                    /\ pc' = IF swallowed THEN pc ELSE "interrupted"
                    /\ UNCHANGED <<i, itemVars, videos_data, openViews, log, histVars>>
    /\ UNCHANGED <<variant, nfig, loadVars>>
    /\ UNCHANGED <<reconVars, retryVars, runVars, saveVars>>

NextCancel ==
    \/ Next
    \/ Interrupt

SpecCancel == Init /\ [][NextCancel]_vars

\* the KeyboardInterrupt leaves scrape_single_subcategory and passes the
\* `except Exception` of scrape_subcategory_with_retry: the call of
\* save_videos_data is not reached, the list built so far is dropped with
\* the frame (videos_data keeps what the list held when the scrape was left)
InterruptLeaves ==
    /\ wpc = "scraping" /\ pc = "interrupted"
    /\ wpc' = "interrupted"
    /\ result' = "KeyboardInterrupt"
    /\ UNCHANGED <<attempt, scrapeCalls, store, csv_file>>
    /\ UNCHANGED cycleVars
    /\ recUnchanged

NextRetryCancel ==
    \/ NextRetry
    \/ Interrupt
    \/ InterruptLeaves

SpecRetryCancel == InitRetry /\ [][NextRetryCancel]_vars

\* ============================================================ item enumerator
\* the cascades: find_all_video_figures tries 10 CSS selectors and then the
\* XPath for the containers of <video>; the alternative discovery of
\* image_scraper, entered when find_all_image_figures returned nothing,
\* tries 3 methods
EnumVariants == {"simple", "image"}
NumStrategies(v) == IF v = "simple" THEN 11 ELSE 3

\* the element handles a strategy hands over: distinct per strategy
Elements(k, n) == [j \in 1..n |-> <<k, j>>]

\* method 1 of the alternative discovery hands over the parents of the
\* images it matched and drops an image whose parent lookup raises; every
\* other strategy hands over what its selector matched
MapsToParents(v, k) == v = "image" /\ k = 1

\* mutant: the cascade goes on after a strategy produced elements
NeverStops(produced) == FALSE

\* `if found_figures: figures = found_figures; break`, `if not figures:`
StopsAt(produced) == produced # <<>>

\* one strategy is tried: its selector matches n_found elements or the
\* driver call raises (caught and logged, the next strategy is tried)
TryStrategy ==
    /\ epc = "trying"
    /\ \E n_found \in 0..MaxItems, raised \in BOOLEAN, resolved \in 0..MaxItems :
          LET produced == IF raised THEN <<>> ELSE Elements(strategy, resolved)
          IN  /\ raised => n_found = 0
              /\ resolved <= n_found
              /\ resolved < n_found => MapsToParents(variant, strategy)
              /\ comp' = [comp EXCEPT
                    !.figures = IF produced # <<>> THEN produced ELSE figures,
                    !.tried = Append(tried, [strategy |-> strategy, found |-> n_found,
                                             raised |-> raised,
                                             produced |-> Len(produced)]),
                    !.epc = IF StopsAt(produced) \/ strategy = NumStrategies(variant)
                            THEN "returned" ELSE epc,
                    !.strategy = IF StopsAt(produced) \/ strategy = NumStrategies(variant)
                                 THEN strategy ELSE strategy + 1]
    /\ UNCHANGED <<cycleVars, reconVars, retryVars, runVars, saveVars>>

\* the enumerator is entered: figures = []
InitEnum ==
    /\ variant \in EnumVariants /\ pc = "enumerate" /\ CycleLocals
    /\ ReconIdle /\ RetryIdle /\ RunIdle /\ SaveIdle
    /\ comp = [epc |-> "trying", strategy |-> 1, figures |-> <<>>, tried |-> <<>>]

NextEnum == TryStrategy

SpecEnum == InitEnum /\ [][NextEnum]_vars

\* ============================================================ low-count report
\* low_video_count_analysis.py writes low_video_count_categories.txt and
\* range_scraper.py reads it back.  Text is kept as TLC strings; the file is
\* the sequence of its lines.  The bullet character U+2022 of the report is
\* written "*" here.
MaxCats == 2
MaxLow == 2
Bullet == "*"
Whitespace == {" "}
DigitChars == "0123456789"
CategoryNames == {"A", "A ", "B"}
SubNames == {"a", "a (Count: 7) b"}

Char(s, k) == SubSeq(s, k, k)
From(s, k) == SubSeq(s, k, Len(s))
MinOf(S) == CHOOSE m \in S : \A n \in S : m <= n

\* str.startswith
startswith(s, p) == Len(s) >= Len(p) /\ SubSeq(s, 1, Len(p)) = p

\* str.strip
RECURSIVE lstrip(_)
lstrip(s) ==
    IF Len(s) > 0 /\ Char(s, 1) \in Whitespace THEN lstrip(From(s, 2)) ELSE s
RECURSIVE rstrip(_)
rstrip(s) ==
    IF Len(s) > 0 /\ Char(s, Len(s)) \in Whitespace
    THEN rstrip(SubSeq(s, 1, Len(s) - 1)) ELSE s
strip(s) == lstrip(rstrip(s))

\* str.replace(old, ''): every occurrence of old is removed, left to right
RECURSIVE replace(_, _)
replace(s, old) ==
    IF Len(s) < Len(old) \/ Len(s) = 0 THEN s
    ELSE IF startswith(s, old) THEN replace(From(s, Len(old) + 1), old)
    ELSE Char(s, 1) \o replace(From(s, 2), old)

\* str(n) of a natural number, as an f-string formats it
RECURSIVE str(_)
str(n) ==
    IF n < 10 THEN Char(DigitChars, n + 1)
    ELSE str(n \div 10) \o Char(DigitChars, (n % 10) + 1)

IsDigit(c) == \E d \in 0..9 : Char(DigitChars, d + 1) = c
DigitOf(c) == CHOOSE d \in 0..9 : Char(DigitChars, d + 1) = c
\* int(s) of a string of digits
RECURSIVE int(_)
int(s) ==
    IF Len(s) = 0 THEN 0
    ELSE 10 * int(SubSeq(s, 1, Len(s) - 1)) + DigitOf(Char(s, Len(s)))

\* the metadata.json files os.walk finds: category names are pairwise
\* distinct, every subsection has a name and a video_count
LowEntries == [name : SubNames, video_count : 0..2]
SubLists == UNION {[1..n -> LowEntries] : n \in 0..MaxLow}
MetadataFiles == [category_name : CategoryNames, sub_categories : SubLists]
Walks ==
    {w \in UNION {[1..n -> MetadataFiles] : n \in 1..MaxCats} :
        \A a, b \in 1..Len(w) :
            a # b => w[a].category_name # w[b].category_name}

walk == comp.walk
results == comp.results
report == comp.report
low_count_data == comp.low_count_data
lpc == comp.lpc

\* the subsections of one metadata.json with video_count <= 1, in file order
RECURSIVE LowCountOf(_)
LowCountOf(subs) ==
    IF subs = <<>> THEN <<>>
    ELSE (IF Head(subs).video_count <= 1 THEN <<Head(subs)>> ELSE <<>>)
         \o LowCountOf(Tail(subs))

\* results of analyze_low_video_counts: one entry per file that has a
\* low-count subsection, in walk order (category names are distinct, so no
\* key is assigned twice)
RECURSIVE ResultsOf(_)
ResultsOf(w) ==
    IF w = <<>> THEN <<>>
    ELSE LET low == LowCountOf(Head(w).sub_categories)
         IN  (IF low # <<>>
              THEN <<[category_name |-> Head(w).category_name,
                      total_subcategories |-> Len(Head(w).sub_categories),
                      low_count_subcategories |-> low,
                      low_count_total |-> Len(low)]>>
              ELSE <<>>) \o ResultsOf(Tail(w))

analyze_low_video_counts ==
    /\ lpc = "start"
    /\ comp' = [comp EXCEPT !.results = ResultsOf(walk), !.lpc = "analysed"]
    /\ UNCHANGED <<cycleVars, reconVars, retryVars, runVars, saveVars>>

RECURSIVE Repeat(_, _)
Repeat(c, n) == IF n = 0 THEN "" ELSE c \o Repeat(c, n - 1)

SubLine(sub) ==
    "  " \o Bullet \o " " \o sub.name \o " (Count: " \o str(sub.video_count) \o ")"

CategoryBlock(data) ==
    <<"CATEGORY: " \o data.category_name,
      "Total subcategories: " \o str(data.total_subcategories),
      "Low count subcategories: " \o str(data.low_count_total),
      Repeat("-", 40)>>
    \o [k \in 1..Len(data.low_count_subcategories) |->
           SubLine(data.low_count_subcategories[k])]
    \o <<"">>

RECURSIVE Blocks(_)
Blocks(res) ==
    IF res = <<>> THEN <<>> ELSE CategoryBlock(Head(res)) \o Blocks(Tail(res))

RECURSIVE TotalLow(_)
TotalLow(res) ==
    IF res = <<>> THEN 0
    ELSE Len(Head(res).low_count_subcategories) + TotalLow(Tail(res))

ReportLines(res) ==
    <<"CATEGORIES AND SUBCATEGORIES WITH 0 OR 1 VIDEO COUNTS", Repeat("=", 60), "">>
    \o Blocks(res)
    \o <<"SUMMARY", Repeat("=", 20),
         "Total categories analyzed: " \o str(Len(res)),
         "Categories with low count subcategories: " \o str(Len(res)),
         "Total subcategories with 0 or 1 videos: " \o str(TotalLow(res))>>

\* main() saves only a non-empty result
save_results_to_file ==
    /\ lpc = "analysed" /\ results # <<>>
    /\ comp' = [comp EXCEPT !.report = ReportLines(results), !.lpc = "saved"]
    /\ UNCHANGED <<cycleVars, reconVars, retryVars, runVars, saveVars>>

\* first position >= k of s that holds no whitespace (Len(s)+1 if none)
RECURSIVE SkipWs(_, _)
SkipWs(s, k) ==
    IF k <= Len(s) /\ Char(s, k) \in Whitespace THEN SkipWs(s, k + 1) ELSE k
\* first position >= k of s that holds no digit
RECURSIVE SkipDigits(_, _)
SkipDigits(s, k) ==
    IF k <= Len(s) /\ IsDigit(Char(s, k)) THEN SkipDigits(s, k + 1) ELSE k

\* the tail  \s*\(Count:\s*(\d+)\)  of the pattern matched at position e:
\* <<count>> if it matches there, <<>> if not
CountAt(s, e) ==
    LET a == SkipWs(s, e)
        c == SkipWs(s, a + 7)
        d == SkipDigits(s, c)
    IN  IF /\ a + 6 <= Len(s) /\ SubSeq(s, a, a + 6) = "(Count:"
           /\ d > c /\ d <= Len(s) /\ Char(s, d) = ")"
        THEN <<int(SubSeq(s, c, d - 1))>>
        ELSE <<>>

\* re.match(r'\s*<bullet>\s*(.+?)\s*\(Count:\s*(\d+)\)', line) on a stripped
\* line that starts with the bullet: <<group 1, int(group 2)>> or <<>>.
\* The greedy \s* after the bullet takes all whitespace, the lazy group ends
\* at the first position where the tail matches; only when no such position
\* exists is one whitespace character given back to the group.
re_match(line) ==
    LET g == SkipWs(line, 2)
        ends == {e \in (g + 1)..(Len(line) + 1) : CountAt(line, e) # <<>>}
    IN  IF ends # {}
        THEN <<SubSeq(line, g, MinOf(ends) - 1), CountAt(line, MinOf(ends))[1]>>
        ELSE IF g > 2 /\ CountAt(line, g) # <<>>
        THEN <<Char(line, g - 1), CountAt(line, g)[1]>>
        ELSE <<>>

\* low_count_data[key] = []: a dict keeps the position of a key it already has
HasKey(d, key) == \E k \in 1..Len(d) : d[k].key = key
SetEmpty(d, key) ==
    IF HasKey(d, key)
    THEN [k \in 1..Len(d) |-> IF d[k].key = key THEN [d[k] EXCEPT !.value = <<>>] ELSE d[k]]
    ELSE Append(d, [key |-> key, value |-> <<>>])
AppendTo(d, key, item) ==
    [k \in 1..Len(d) |->
        IF d[k].key = key THEN [d[k] EXCEPT !.value = Append(@, item)] ELSE d[k]]

\* one iteration of the parser's loop over the lines; st is
\* [current_category, low_count_data], current_category <<>> while None
ParseLine(st, raw) ==
    LET line == strip(raw)
    IN  IF \/ line = "" \/ startswith(line, "=") \/ startswith(line, "-")
           \/ startswith(line, "CATEGORIES") \/ startswith(line, "SUMMARY")
        THEN st
        ELSE IF startswith(line, "CATEGORY:")
        THEN LET cat == strip(replace(line, "CATEGORY:"))
             IN  [current_category |-> <<cat>>,
                  low_count_data |-> SetEmpty(st.low_count_data, cat)]
        ELSE IF \/ startswith(line, "Total subcategories:")
                \/ startswith(line, "Low count subcategories:")
        THEN st
        ELSE IF /\ startswith(line, Bullet)
                /\ st.current_category # <<>> /\ st.current_category[1] # ""
                /\ re_match(line) # <<>>
        THEN [st EXCEPT !.low_count_data =
                 AppendTo(@, st.current_category[1],
                          [name |-> strip(re_match(line)[1]),
                           video_count |-> re_match(line)[2]])]
        ELSE st

RECURSIVE ParseLines(_, _)
ParseLines(st, lines) ==
    IF lines = <<>> THEN st
    ELSE ParseLines(ParseLine(st, Head(lines)), Tail(lines))

\* categories left without a subsection are removed
RECURSIVE NonEmpty(_)
NonEmpty(d) ==
    IF d = <<>> THEN <<>>
    ELSE (IF Head(d).value # <<>> THEN <<Head(d)>> ELSE <<>>) \o NonEmpty(Tail(d))

ParsedReport(lines) ==
    NonEmpty(ParseLines([current_category |-> <<>>, low_count_data |-> <<>>],
                        lines).low_count_data)

parse_low_video_count_file ==
    /\ lpc = "saved"
    /\ comp' = [comp EXCEPT !.low_count_data = ParsedReport(report), !.lpc = "parsed"]
    /\ UNCHANGED <<cycleVars, reconVars, retryVars, runVars, saveVars>>

InitReport ==
    /\ variant = "simple" /\ pc = "idle" /\ CycleLocals
    /\ ReconIdle /\ RetryIdle /\ RunIdle /\ SaveIdle
    /\ \E w \in Walks :
          comp = [walk |-> w, results |-> <<>>, report |-> <<>>,
                  low_count_data |-> <<>>, lpc |-> "start"]

NextReport ==
    \/ analyze_low_video_counts
    \/ save_results_to_file
    \/ parse_low_video_count_file

SpecReport == InitReport /\ [][NextReport]_vars

\* ============================================================ record synthesis
\* The record built after the retry loop, as a function of the loop's locals:
\* the item is figures[...] number loop_index of the loop over total_figures
\* items, popup_data is extracted_data, own_url and own_id are what the
\* figure itself gave.
total_figures == comp.total_figures
loop_index == comp.loop_index
popup_data == comp.popup_data
own_url == comp.own_url
own_id == comp.own_id
appended == comp.appended

\* 1-based position, in the list the enumerator returned, of the item the
\* loop handles at index idx: the image scraper walks reversed(figures)
ActualIndex(v, total, idx) == IF v = "image" THEN total - idx ELSE idx + 1

SynthesizeRecord ==
    /\ appended = <<>>
    /\ comp' = [comp EXCEPT !.appended =
                    AppendFinal(<<>>, variant, popup_data, own_url, own_id, loop_index)]
    /\ UNCHANGED <<cycleVars, reconVars, retryVars, runVars, saveVars>>

InitRecord ==
    /\ variant \in Variants /\ pc = "idle" /\ CycleLocals
    /\ ReconIdle /\ RetryIdle /\ RunIdle /\ SaveIdle
    /\ \E n \in 1..MaxItems, d \in ExtractResults(variant),
          fu \in FigureUrls, fid \in FigureIds :
          \E k \in 0..(n - 1) :
             comp = [total_figures |-> n, loop_index |-> k, popup_data |-> d,
                     own_url |-> fu, own_id |-> fid, appended |-> <<>>]

NextRecord == SynthesizeRecord

SpecRecord == InitRecord /\ [][NextRecord]_vars

\* ============================================================ page opening
\* scrape_single_subcategory of the scrapers, from the content loader
\* to the decision between "no items" (return []) and the item loop.
calls == comp.calls          \* history: the calls made so far, in order
Call(name, n_found, raised) == [call |-> name, found |-> n_found, raised |-> raised]
opc == comp.opc

NumAlternatives == 3

\* self.scroll_to_load_all_content()
CallLoader ==
    /\ opc = "load"
    /\ comp' = [comp EXCEPT !.calls = Append(calls, Call("loader", 0, FALSE)),
                         !.opc = "scan"]
    /\ UNCHANGED <<cycleVars, reconVars, retryVars, runVars, saveVars>>

\* where control goes when the primary cascade found nothing
AfterEmptyScan(v) == IF v = "image" THEN "alternative" ELSE "returned_empty"

\* figures = self.find_all_video_figures() / find_all_image_figures()
PrimaryCascade ==
    /\ opc = "scan"
    /\ \E n \in 0..MaxItems :
          comp' = [comp EXCEPT
                !.calls = Append(calls, Call("cascade", n, FALSE)),
                !.figures = Elements(0, n),
                !.opc = IF n > 0 THEN "process" ELSE AfterEmptyScan(variant)]
    /\ UNCHANGED <<cycleVars, reconVars, retryVars, runVars, saveVars>>

\* image scraper: one of the three alternative discovery methods; its
\* find_elements call finds n_found elements or raises (caught and logged);
\* method 1 keeps the parents it could resolve, the others what they found
AlternativeMethod ==
    /\ opc = "alternative"
    /\ \E n_found \in 0..MaxItems, raised \in BOOLEAN, n \in 0..MaxItems :
          /\ raised => n_found = 0
          /\ n <= n_found
          /\ n < n_found => MapsToParents(variant, strategy)
          /\ comp' = [comp EXCEPT
                !.calls = Append(calls, Call("alternative", n_found, raised)),
                !.figures = Elements(strategy, n),
                !.strategy = IF n = 0 /\ strategy < NumAlternatives
                             THEN strategy + 1 ELSE strategy,
                !.opc = IF n > 0 THEN "process"
                        ELSE IF strategy < NumAlternatives THEN opc
                        ELSE "retry"]
    /\ UNCHANGED <<cycleVars, reconVars, retryVars, runVars, saveVars>>

\* image scraper, nothing found by any method: the debug information is
\* read (title, URL, ready state; a driver error ends the try block), then
\* time.sleep(5) and find_all_image_figures() once more; `if not figures:
\* return []`
WaitAndScanAgain ==
    /\ opc = "retry"
    /\ \E debug_error \in BOOLEAN, n \in 0..MaxItems :
          IF debug_error
          THEN /\ n = 0
               /\ comp' = [comp EXCEPT !.opc = "returned_empty"]
          ELSE comp' = [comp EXCEPT
                  !.calls = calls \o <<Call("wait", 0, FALSE), Call("cascade", n, FALSE)>>,
                  !.figures = Elements(0, n),
                  !.opc = IF n > 0 THEN "process" ELSE "returned_empty"]
    /\ UNCHANGED <<cycleVars, reconVars, retryVars, runVars, saveVars>>

InitOpen ==
    /\ variant \in Variants /\ pc = "idle" /\ CycleLocals
    /\ ReconIdle /\ RetryIdle /\ RunIdle /\ SaveIdle
    /\ comp = [calls |-> <<>>, opc |-> "load", figures |-> <<>>, strategy |-> 1]

NextOpen ==
    \/ CallLoader
    \/ PrimaryCascade
    \/ AlternativeMethod
    \/ WaitAndScanAgain

SpecOpen == InitOpen /\ [][NextOpen]_vars

\* ============================================================ range selection
\* parse_range_input and the selection of the figures to process in
\* scrape_single_subcategory.  The caller's request is kept as a list of
\* parts next to the text typed for it; the parser sees the text only.
RangeNums == 0..(MaxItems + 1)
RangeParts ==
    [kind : {"single"}, a : RangeNums, b : {0}]
    \cup [kind : {"range"}, a : RangeNums, b : RangeNums]
    \cup [kind : {"all", " ALL ", "x", "2-", "-2", ""}, a : {0}, b : {0}]
RangeRequests == {<<p>> : p \in RangeParts} \cup {<<p, q>> : p, q \in RangeParts}

\* the text typed for one part, and for the request
PartText(p) ==
    IF p.kind = "single" THEN str(p.a)
    ELSE IF p.kind = "range" THEN str(p.a) \o "-" \o str(p.b)
    ELSE p.kind
RequestText(r) ==
    IF Len(r) = 1 THEN PartText(r[1]) ELSE PartText(r[1]) \o "," \o PartText(r[2])

request == comp.request
range_input == comp.range_input
max_videos == comp.max_videos
num_figures == comp.num_figures        \* len(figures) of the scrape
video_range == comp.video_range
videos_to_process == comp.videos_to_process
handled == comp.handled                \* history: figure_index + 1 per iteration
gpc == comp.gpc

UpperChars == "ABCDEFGHIJKLMNOPQRSTUVWXYZ"
LowerChars == "abcdefghijklmnopqrstuvwxyz"
\* str.lower
LowerChar(c) ==
    IF \E k \in 1..26 : Char(UpperChars, k) = c
    THEN Char(LowerChars, CHOOSE k \in 1..26 : Char(UpperChars, k) = c)
    ELSE c
RECURSIVE lower(_)
lower(s) == IF Len(s) = 0 THEN s ELSE LowerChar(Char(s, 1)) \o lower(From(s, 2))

\* position of the first c in s, 0 if there is none
IndexOf(s, c) ==
    IF \E k \in 1..Len(s) : Char(s, k) = c
    THEN MinOf({k \in 1..Len(s) : Char(s, k) = c})
    ELSE 0

\* str.split(sep)
RECURSIVE split(_, _)
split(s, sep) ==
    IF IndexOf(s, sep) = 0 THEN <<s>>
    ELSE <<SubSeq(s, 1, IndexOf(s, sep) - 1)>> \o split(From(s, IndexOf(s, sep) + 1), sep)

\* str.split(sep, 1) of a string that holds sep
split_once(s, sep) == <<SubSeq(s, 1, IndexOf(s, sep) - 1), From(s, IndexOf(s, sep) + 1)>>

\* int(s): <<n>>, or <<>> for ValueError; surrounding whitespace and a sign
\* are accepted
ParseInt(s) ==
    LET t == strip(s)
        signed == Len(t) > 0 /\ Char(t, 1) \in {"-", "+"}
        digits == IF signed THEN From(t, 2) ELSE t
    IN  IF Len(digits) > 0 /\ \A k \in 1..Len(digits) : IsDigit(Char(digits, k))
        THEN <<IF Char(t, 1) = "-" THEN 0 - int(digits) ELSE int(digits)>>
        ELSE <<>>

\* mutant: start and end are used as typed
NotSwapped(start, end) == <<start, end>>

\* if start > end: start, end = end, start
Swapped(start, end) == IF start > end THEN <<end, start>> ELSE <<start, end>>

\* what one comma-separated part adds to indices
PartIndices(part, max) ==
    IF IndexOf(part, "-") > 0 /\ ~startswith(part, "-")
    THEN LET halves == split_once(part, "-")
             start == ParseInt(halves[1])
             end == ParseInt(halves[2])
         IN  IF start = <<>> \/ end = <<>> THEN {}
             ELSE {n \in Swapped(start[1], end[1])[1]..Swapped(start[1], end[1])[2] :
                      1 <= n /\ n <= max}
    ELSE LET num == ParseInt(part)
         IN  IF num # <<>> /\ 1 <= num[1] /\ num[1] <= max THEN {num[1]} ELSE {}

\* sorted(list(indices))
RECURSIVE SortedList(_)
SortedList(S) == IF S = {} THEN <<>> ELSE <<MinOf(S)>> \o SortedList(S \ {MinOf(S)})

ParsedRange(text, max) ==
    LET t == lower(strip(text))
        parts == split(t, ",")
    IN  IF t \in {"0", "all"} THEN [k \in 1..max |-> k]
        ELSE SortedList(UNION {PartIndices(strip(parts[k]), max) : k \in 1..Len(parts)})

parse_range_input ==
    /\ gpc = "input"
    /\ comp' = [comp EXCEPT !.video_range = ParsedRange(range_input, max_videos),
                            !.gpc = "select"]
    /\ UNCHANGED <<cycleVars, reconVars, retryVars, runVars, saveVars>>

\* videos_to_process = [i - 1 for i in video_range if 1 <= i <= len(figures)]
ToProcess(range, n) ==
    LET kept == SelectSeq(range, LAMBDA p : 1 <= p /\ p <= n)
    IN  [k \in 1..Len(kept) |-> kept[k] - 1]

\* `if not videos_to_process: return []`
SelectVideos ==
    /\ gpc = "select"
    /\ comp' = [comp EXCEPT
          !.videos_to_process = ToProcess(video_range, num_figures),
          !.gpc = IF ToProcess(video_range, num_figures) = <<>> THEN "done" ELSE "loop"]
    /\ UNCHANGED <<cycleVars, reconVars, retryVars, runVars, saveVars>>

\* one iteration of `for idx, figure_index in enumerate(videos_to_process)`
ProcessSelected ==
    /\ gpc = "loop"
    /\ comp' = [comp EXCEPT
          !.handled = Append(handled, videos_to_process[Len(handled) + 1] + 1),
          !.gpc = IF Len(handled) + 1 = Len(videos_to_process) THEN "done" ELSE gpc]
    /\ UNCHANGED <<cycleVars, reconVars, retryVars, runVars, saveVars>>

InitRange ==
    /\ variant = "range" /\ pc = "idle" /\ CycleLocals
    /\ ReconIdle /\ RetryIdle /\ RunIdle /\ SaveIdle
    \* an empty figures list has returned [] before the selection is reached
    /\ \E r \in RangeRequests, m \in 0..MaxItems, n \in 1..MaxItems :
          comp = [request |-> r, range_input |-> RequestText(r), max_videos |-> m,
                  num_figures |-> n, video_range |-> <<>>,
                  videos_to_process |-> <<>>, handled |-> <<>>, gpc |-> "input"]

NextRange ==
    \/ parse_range_input
    \/ SelectVideos
    \/ ProcessSelected

SpecRange == InitRange /\ [][NextRange]_vars

\* ============================================================ media URL extraction
\* The part of extract_prompt_from_popup that finds the media URL, for the
\* three scrapers.  popup is what the detail view shows: the attribute values
\* of the elements the selectors match.
popup == comp.popup
found_url == comp.found_url          \* video_url / image_url of extracted_data
found_by == comp.found_by            \* the step that assigned it
xpc == comp.xpc

endswith(s, suffix) ==
    Len(s) >= Len(suffix) /\ SubSeq(s, Len(s) - Len(suffix) + 1, Len(s)) = suffix
\* `sub in s`
contains(s, sub) ==
    \E k \in 1..(Len(s) - Len(sub) + 1) : SubSeq(s, k, k + Len(sub) - 1) = sub

NoUrl == [url |-> NONE, by |-> "none"]

\* --- image scraper
\* src.startswith('http') and not src.endswith('.svg')
HttpNotSvg(u) == Truthy(u) /\ StartsWithHttp(u) /\ ~endswith(u, ".svg")

\* re.findall(r'(https?://[^\s]+)\s+(\d+)w', srcset): the entries of the
\* source set whose URL has an http(s) scheme
SrcsetMatches(srcset) ==
    SelectSeq(srcset, LAMBDA e : startswith(e.url, "http://") \/ startswith(e.url, "https://"))
\* max(srcset_matches, key=width): the first entry of the largest width
HighestQuality(found) ==
    found[MinOf({k \in 1..Len(found) :
                    \A j \in 1..Len(found) : found[j].width <= found[k].width})]

\* what one matched element gives: src, then srcset, then data-src, then
\* the background image of the style attribute
ImageUrlOf(img) ==
    IF HttpNotSvg(img.src) THEN [url |-> img.src, by |-> "src"]
    ELSE IF img.srcset # <<>> /\ SrcsetMatches(img.srcset) # <<>>
    THEN [url |-> HighestQuality(SrcsetMatches(img.srcset)).url, by |-> "srcset"]
    ELSE IF HttpNotSvg(img.data_src) THEN [url |-> img.data_src, by |-> "data-src"]
    ELSE IF Truthy(img.background) /\ HttpNotSvg(img.background)
    THEN [url |-> img.background, by |-> "background-image"]
    ELSE NoUrl

\* the loops over the selectors and their elements end at the first URL
RECURSIVE FirstImageUrl(_)
FirstImageUrl(imgs) ==
    IF imgs = <<>> THEN NoUrl
    ELSE IF ImageUrlOf(Head(imgs)) # NoUrl THEN ImageUrlOf(Head(imgs))
    ELSE FirstImageUrl(Tail(imgs))

ImageSrcs == {NONE, "http://cdn/i1.jpg", "https://cdn/logo.svg"}
ImageSrcsets ==
    {<<>>,
     <<[url |-> "https://cdn/i1.jpg", width |-> 1], [url |-> "https://cdn/i2.jpg", width |-> 2]>>,
     <<[url |-> "https://cdn/icon.svg", width |-> 2], [url |-> "/i1.jpg", width |-> 3]>>}
ImageDataSrcs == {NONE, "http://cdn/lazy.jpg", "/lazy.jpg"}
ImageBackgrounds == {NONE, "http://cdn/bg.jpg", "http://cdn/bg.svg"}
ImageElements ==
    [src : ImageSrcs, srcset : ImageSrcsets, data_src : ImageDataSrcs,
     background : ImageBackgrounds]
ImagePopups == {<<>>} \cup {<<e>> : e \in ImageElements}
               \cup {<<d, e>> : d \in {x \in ImageElements : ImageUrlOf(x) = NoUrl},
                                e \in ImageElements}

ExtractImageUrl ==
    /\ xpc = "popup" /\ variant = "image"
    /\ comp' = [comp EXCEPT !.found_url = FirstImageUrl(popup).url,
                            !.found_by = FirstImageUrl(popup).by,
                            !.xpc = "extracted"]
    /\ UNCHANGED <<cycleVars, reconVars, retryVars, runVars, saveVars>>

\* --- range scraper
\* video_url = get_attribute('src') or get_attribute('data-src')
SrcOrDataSrc(el) == IF Truthy(el.src) THEN el.src ELSE el.data_src

\* for selector in video_selectors: the element of the first selector that
\* matches (find_element raises for the others) and has a truthy URL
RECURSIVE FirstVideoUrl(_)
FirstVideoUrl(els) ==
    IF els = <<>> THEN NoUrl
    ELSE IF Truthy(SrcOrDataSrc(Head(els)))
    THEN [url |-> SrcOrDataSrc(Head(els)), by |-> "selector"]
    ELSE FirstVideoUrl(Tail(els))

VideoSrcs == {NONE, "https://cdn/v1.mp4", "blob:https://site/1"}
VideoDataSrcs == {NONE, "/media/v1.mp4", "https://cdn/poster.svg"}
VideoElements == [src : VideoSrcs, data_src : VideoDataSrcs]
\* the elements the selectors match, in selector order
RangePopups == {<<>>} \cup {<<e>> : e \in VideoElements}
               \cup {<<d, e>> : d, e \in VideoElements}

ExtractRangeVideoUrl ==
    /\ xpc = "popup" /\ variant = "range"
    /\ comp' = [comp EXCEPT !.found_url = FirstVideoUrl(popup).url,
                            !.found_by = FirstVideoUrl(popup).by,
                            !.xpc = "extracted"]
    /\ UNCHANGED <<cycleVars, reconVars, retryVars, runVars, saveVars>>

\* --- simple scraper
SrcAttempts == 5
\* if video_url and not video_url.endswith('placeholder') and 'blob:' not in video_url
SrcLoaded(u) == Truthy(u) /\ ~endswith(u, "placeholder") /\ ~contains(u, "blob:")

\* the src read on attempt t: `first` until the player has loaded, `later` after
SrcRead(p, t) == IF t <= p.loads_after THEN p.first ELSE p.later

\* video_url after `for attempt in range(5)`: the first loaded src; the src
\* read last when none loaded or when re-finding the element raised
AfterAttempts(p) ==
    LET loaded == {t \in 1..SrcAttempts : SrcLoaded(SrcRead(p, t))}
    IN  IF SrcLoaded(SrcRead(p, 1)) THEN SrcRead(p, 1)
        ELSE IF ~p.refound THEN SrcRead(p, 1)
        ELSE IF loaded # {} THEN SrcRead(p, MinOf(loaded))
        ELSE SrcRead(p, SrcAttempts)

\* data-video-url or data-src of the container
DataUrl(c) == IF Truthy(c.data_video_url) THEN c.data_video_url ELSE c.data_src

\* extract_prompt_from_popup of the simple scraper, the video URL
SimpleVideoUrl(p) ==
    IF ~p.has_video THEN NoUrl
    ELSE IF Truthy(AfterAttempts(p)) /\ ~contains(AfterAttempts(p), "blob:")
    THEN [url |-> AfterAttempts(p), by |-> "video[src]"]
    ELSE IF p.source # <<>> THEN [url |-> p.source[1], by |-> "video source[src]"]
    ELSE IF p.container # <<>> THEN [url |-> DataUrl(p.container[1]), by |-> "data attribute"]
    ELSE [url |-> AfterAttempts(p), by |-> "video[src]"]

SimpleSrcs == {"", "blob:https://site/1", "https://cdn/v1.mp4"}
SimpleSources == {<<>>, <<NONE>>, <<"https://cdn/v2.mp4">>}
SimpleContainers ==
    {<<>>} \cup {<<c>> : c \in [data_video_url : {NONE, "https://cdn/v3.mp4"},
                                data_src : {NONE, "/media/v3.mp4"}]}
SimplePopups ==
    [has_video : BOOLEAN, first : SimpleSrcs, later : SimpleSrcs,
     loads_after : {0, 1, SrcAttempts - 1, SrcAttempts}, refound : BOOLEAN,
     source : SimpleSources, container : SimpleContainers]

ExtractSimpleVideoUrl ==
    /\ xpc = "popup" /\ variant = "simple"
    /\ comp' = [comp EXCEPT !.found_url = SimpleVideoUrl(popup).url,
                            !.found_by = SimpleVideoUrl(popup).by,
                            !.xpc = "extracted"]
    /\ UNCHANGED <<cycleVars, reconVars, retryVars, runVars, saveVars>>

PopupsOf(v) ==
    IF v = "image" THEN ImagePopups ELSE IF v = "range" THEN RangePopups ELSE SimplePopups

InitExtract ==
    /\ variant \in Variants /\ pc = "idle" /\ CycleLocals
    /\ ReconIdle /\ RetryIdle /\ RunIdle /\ SaveIdle
    /\ \E p \in PopupsOf(variant) :
          comp = [popup |-> p, found_url |-> NONE, found_by |-> "none", xpc |-> "popup"]

NextExtract ==
    \/ ExtractImageUrl
    \/ ExtractRangeVideoUrl
    \/ ExtractSimpleVideoUrl

SpecExtract == InitExtract /\ [][NextExtract]_vars

\* ============================================================ storage paths
\* Where find_missing_subcategories looks for the records of a worklist
\* entry and where scrape_subcategory_with_retry has save_videos_data put
\* them.  A path is the sequence of its components below the working
\* directory; "." components are dropped, so "./Sub" and "Sub" are one path.
root_dir == comp.root_dir
layout == comp.layout
item == comp.item                    \* directory name listed under root_dir
entry == comp.entry                  \* the worklist entry
files == comp.files                  \* the videos.json files on disk
saved_to == comp.saved_to            \* history: folder_path of the save
saved_count == comp.saved_count      \* history: len(unique_videos) of the save
status_after == comp.status_after    \* status of the entry on the next scan
ppc == comp.ppc

Normalised(p) == SelectSeq(p, LAMBDA c : c # ".")
\* os.path.join(p, name)
Join(p, name) == Normalised(Append(p, name))
\* os.path.basename of a directory path; basename(".") is "."
Basename(p) == IF p = <<>> THEN "." ELSE p[Len(p)]

RootDirs == {<<>>, <<"Cat">>}
DirNames == {"Cat", "My_Cat"}
CatalogNames == {"Cat", "My_Cat"}
SubsectionNames == {"Sub", "Sub_x"}
Layouts == {"root", "child", "standalone"}

\* the entry find_missing_subcategories appends: root metadata (lines
\* 72-101), subsection listed in a child directory's metadata (136-156),
\* standalone child directory (181-188)
WorklistEntry(lay, root, dir, category_name, subcat_name) ==
    IF lay = "root"
    THEN [category |-> category_name, subcategory |-> subcat_name,
          path |-> Join(root, subcat_name)]
    ELSE IF lay = "child"
    THEN [category |-> category_name, subcategory |-> subcat_name,
          path |-> Join(Join(root, dir), subcat_name)]
    ELSE [category |-> Basename(root), subcategory |-> category_name,
          path |-> Join(root, dir)]

\* the file at a path as check_videos_json sees it
FileAt(fs, p) ==
    IF \E f \in fs : f.path = p
    THEN [kind |-> "list", len |-> (CHOOSE f \in fs : f.path = p).len]
    ELSE NoFile

\* save_videos_data: category, subcategory = category_name.split("_", 1);
\* folder_path = os.path.join(category, subcategory).  The name built by
\* scrape_subcategory_with_retry always holds an underscore.
FolderPath(category_name) == Normalised(split_once(category_name, "_"))

\* scrape_subcategory_with_retry with a non-empty result: the records are
\* saved under f"{category}_{subcategory}", n unique records are written
ScrapeAndSave ==
    /\ ppc = "listed"
    /\ \E n \in 1..MaxCount :
          LET folder_path == FolderPath(entry.category \o "_" \o entry.subcategory)
          IN  comp' = [comp EXCEPT
                 !.files = {f \in files : f.path # folder_path}
                              \cup {[path |-> folder_path, len |-> n]},
                 !.saved_to = folder_path,
                 !.saved_count = n,
                 !.ppc = "saved"]
    /\ UNCHANGED <<cycleVars, reconVars, retryVars, runVars, saveVars>>

\* the next find_missing_subcategories: check_videos_json at the entry's path
ScanAgain ==
    /\ ppc = "saved"
    /\ comp' = [comp EXCEPT
          !.status_after = check_videos_json(FileAt(files, entry.path))[1],
          !.ppc = "scanned"]
    /\ UNCHANGED <<cycleVars, reconVars, retryVars, runVars, saveVars>>

\* the entry is on the worklist: its record file is missing or holds at
\* most two records
InitPaths ==
    /\ variant = "simple" /\ pc = "idle" /\ CycleLocals
    /\ ReconIdle /\ RetryIdle /\ RunIdle /\ SaveIdle
    /\ \E root \in RootDirs, lay \in Layouts, dir \in DirNames,
          category_name \in CatalogNames, subcat_name \in SubsectionNames,
          had \in 0..PopulatedAbove :
          LET e == WorklistEntry(lay, root, dir, category_name, subcat_name)
          IN  comp = [root_dir |-> root, layout |-> lay, item |-> dir, entry |-> e,
                      files |-> IF had = 0 THEN {} ELSE {[path |-> e.path, len |-> had]},
                      saved_to |-> <<>>, saved_count |-> 0,
                      status_after |-> "unchecked", ppc |-> "listed"]

NextPaths ==
    \/ ScrapeAndSave
    \/ ScanAgain

SpecPaths == InitPaths /\ [][NextPaths]_vars

\* ============================================================ properties
RecordsOf(k) == {j \in 1..Len(recItem) : recItem[j] = k}
Logged(k, tags) == \E t \in tags : <<k, t>> \in log
BetweenItems == pc \in {"loop", "returned"}
LastRecord == videos_data[Len(videos_data)]

\* C1: when the item loop ends (and between any two items) the number of
\* records equals the number of items whose detail view was opened by a click
\* that returned normally: every opened item has its record, real or placeholder.
C1_RecordPerOpenedItem ==
    BetweenItems => /\ Len(videos_data) = Cardinality(opened)
                    /\ \A k \in opened : Cardinality(RecordsOf(k)) = 1

\* C1 witness: the loop ended with two opened items, one of them recorded with
\* a placeholder token because the popup gave nothing
C1_Witness ==
    /\ pc = "returned" /\ Cardinality(opened) = 2 /\ Len(videos_data) = 2
    /\ \E j \in 1..2 : /\ videos_data[j].prompt = "No prompt found"
                       /\ videos_data[j].video_url = "placeholder_video_ab12cd34"

C3_AtMostThreeExtractions ==
    /\ extractCalls <= 3
    /\ pc \in {"extract", "reopen"} => retry < 3
    /\ pc = "extract" => extractCalls = retry

\* C3 witness: three extractions all returned an already collected URL, the
\* item was re-opened, and the loop was left
C3_Witness == pc = "close" /\ extractCalls = 3 /\ retried /\ uniqueAt = 0

\* a record was just appended for the current item
JustAppended ==
    /\ pc \in {"close", "handler"}
    /\ Len(recItem) > 0 /\ recItem[Len(recItem)] = Item

\* C4 as stated: a record whose URL was already collected is only appended
\* after the item was closed and re-opened, and a unique URL returned by
\* attempt 2 is the one recorded, with its prompt
C4_DuplicateOnlyAfterRetry ==
    JustAppended =>
        /\ (\E j \in 1..(Len(videos_data) - 1) :
                videos_data[j].video_url = LastRecord.video_url) => retried
        /\ uniqueAt = 2 => /\ LastRecord.video_url = uniqueData.video_url
                           /\ LastRecord.prompt = uniqueData.prompt

\* items skipped by an item-level failure: no clickable link, or every click
\* mechanism of the modal path raised
SkippedItems == {k \in 1..nfig : Logged(k, {"no_link", "click_failed"})}
\* items whose preparation raised into the per-item handler before any record
FailedItems == {k \in 1..i : Logged(k, {"error"}) /\ RecordsOf(k) = {}}

\* C5: an item-level failure leaves no record for that item, the loop still
\* runs to its last item, and when these are the only failures the output
\* holds one record for each item not skipped (N-1 for one skip)
C5_SkipOnlyThatItem ==
    /\ \A k \in SkippedItems : RecordsOf(k) = {}
    /\ pc = "returned" /\ nfig > 0 => i = nfig
    /\ pc = "returned" /\ nfig > 0 /\ FailedItems = {}
          => Len(videos_data) = nfig - Cardinality(SkippedItems)

\* C5 witness: the first of two items was skipped because all three click
\* mechanisms raised and the second was still recorded
C5_Witness ==
    /\ pc = "returned" /\ nfig = 2 /\ <<1, "click_failed">> \in log
    /\ Len(videos_data) = 1 /\ recItem = <<2>>

Checked == {k \in 1..Len(catalog) : catalog[k].status # "unchecked"}
\* positions of the catalog, in catalog order
Positions == [k \in 1..Len(catalog) |-> k]
\* the catalog entries the worklist names, in worklist order
Worklisted == [j \in 1..Len(worklist) |-> worklist[j].subcategory]
NoBadEntry == \A k \in 1..Len(catalog) : catalog[k].kind # "bad"
IsSubsection(k) == catalog[k].kind = "entry"
\* the status the record file of entry k has, whether or not it was looked at
StatusOf(k) == check_videos_json(catalog[k].file)[1]
NotPopulated(k) == IsSubsection(k) /\ StatusOf(k) # "populated"
LinkedNotPopulated(k) == NotPopulated(k) /\ catalog[k].link # ""

\* C7: check_videos_json returns ('missing', 0) for no file, ('invalid', 0) for
\* unparsable or non-list content, 'empty' for a list of 0 records,
\* 'single_item' for 1 or 2, 'populated' for 3 or more, and for single_item and
\* populated the count is the list length
C7_Classification ==
    \A k \in Checked :
        LET f == catalog[k].file
            st == catalog[k].status
            n == catalog[k].count
        IN  /\ f.kind = "absent" => st = "missing" /\ n = 0
            /\ f.kind \in {"garbage", "object"} => st = "invalid" /\ n = 0
            /\ f.kind = "list" /\ f.len = 0 => st = "empty" /\ n = 0
            /\ f.kind = "list" /\ f.len \in {1, 2} => st = "single_item" /\ n = f.len
            /\ f.kind = "list" /\ f.len >= 3 => st = "populated" /\ n = f.len

\* C7 witness: one scan classified lists of 2 and of 3 records and an
\* unparsable file
C7_Witness ==
    /\ Len(catalog) = 3 /\ Checked = {1, 2, 3}
    /\ catalog[1].file = [kind |-> "list", len |-> 2] /\ catalog[1].status = "single_item"
    /\ catalog[2].file = [kind |-> "list", len |-> 3] /\ catalog[2].status = "populated"
    /\ catalog[3].file.kind = "garbage" /\ catalog[3].status = "invalid"

\* C8 as stated: for a catalog whose entries are all well-formed the worklist
\* is exactly the subsections that are not populated, each once, in catalog order
C8_WorklistIsNotPopulated ==
    NoBadEntry => Worklisted = SelectSeq(Positions, NotPopulated)

\* C8 amended: the worklist is exactly the subsections that have a link and
\* are not populated, each once, in catalog order, each with the status and
\* count of its record file
C8_WorklistIsLinkedNotPopulated ==
    NoBadEntry =>
        /\ Worklisted = SelectSeq(Positions, LinkedNotPopulated)
        /\ \A j \in 1..Len(worklist) :
              /\ worklist[j].status = StatusOf(worklist[j].subcategory)
              /\ worklist[j].url = catalog[worklist[j].subcategory].link

\* C8 witness: a root catalog of three linked subsections with 0, 2 and 3
\* records was scanned to the end and the worklist is the first two
C8_Witness ==
    /\ rpc = "done" /\ rootMeta = "readable" /\ Len(catalog) = 3
    /\ \A k \in 1..3 : catalog[k].link # "" /\ catalog[k].file.kind = "list"
    /\ catalog[1].file.len = 0 /\ catalog[2].file.len = 2 /\ catalog[3].file.len = 3
    /\ Worklisted = <<1, 2>>

\* C9 as stated: after a scan every linked subsection whose record file does
\* not parse is on the worklist as 'invalid', and every catalog index file
\* that does not parse has put a subsection on the worklist as 'invalid'
C9_ParseFailureOnWorklist ==
    rpc = "done" =>
        /\ \A k \in 1..Len(catalog) :
              (IsSubsection(k) /\ catalog[k].link # "" /\ catalog[k].file.kind = "garbage")
                  => \E j \in 1..Len(worklist) : /\ worklist[j].subcategory = k
                                                 /\ worklist[j].status = "invalid"
        /\ \A d \in unreadable :
              \E j \in 1..Len(worklist) : /\ worklist[j].category = d
                                          /\ worklist[j].status = "invalid"

\* ---------------------------------------------- retry driver properties
\* C10 as stated: a subsection is only recorded as failed after a navigation
\* failure once it was attempted max_retries + 1 = 3 times
C10_FailureIsReattempted ==
    (wpc = "done" /\ result = "False" /\ <<0, "navigation_error">> \in log)
        => scrapeCalls = max_retries + 1

\* what scrape_subcategory_with_retry has promised at any moment: at most 3
\* calls of the scrape, a boolean once it is done, True only with a non-empty
\* result whose save completed
RetryDriverSafe ==
    /\ scrapeCalls <= 3
    /\ (wpc = "done") <=> (result \in {"True", "False"})
    /\ result = "True" => /\ videos_data # <<>>
                          /\ store = save_videos_data(videos_data)

\* C11 as stated: scrape_subcategory_with_retry calls the scrape at most 3
\* times and always terminates with a boolean, True only if an attempt gave a
\* non-empty record set and its save completed
C11_TerminatesWithBoolean == []RetryDriverSafe /\ <>(wpc = "done")

\* ------------------------------------------------- run driver properties
\* the catalog entries a list of worklist entries names, in list order
Named(list) == [j \in 1..Len(list) |-> list[j].subcategory]
IsPrefix(a, b) == Len(a) <= Len(b) /\ a = SubSeq(b, 1, Len(a))
Failing(outcome) == outcome \in {"False", "Exception"}
LoopLeft == runpc \in {"summary", "returned", "raised"}

\* C12: in run_automated_scraping every subsection that returns failure or
\* raises an Exception is counted in failed_count and does not end the loop:
\* the entries are attempted in worklist order, each once, and unless the user
\* interrupts the run the loop is only left when all of them were attempted
C12_FailureNeverStopsRun ==
    /\ IsPrefix(attempted, Named(missing_subcategories))
    /\ failed_count = Cardinality({j \in 1..Len(outcomes) : Failing(outcomes[j])})
    /\ (LoopLeft /\ ~dry_run /\ ~interrupted)
           => attempted = Named(missing_subcategories)

\* C12 witness: the first entry returned failure, the second raised, the third
\* was still scraped, and the run returned
C12_Witness ==
    /\ runpc = "returned" /\ outcomes = <<"False", "Exception", "True">>
    /\ attempted = <<1, 2, 3>> /\ failed_count = 2 /\ processed_count = 1

\* C13: with dry_run set the run starts no browser session, scrapes nothing,
\* writes no record file, and leaves processed_count and failed_count as they were
C13_DryRunOnlyLists ==
    dry_run => /\ driver = NONE /\ attempted = <<>> /\ written = {}
               /\ processed_count = 0 /\ failed_count = 0
               /\ runpc \in {"start", "returned"}

\* C13 witness: a dry run over a worklist of three entries has returned
C13_Witness ==
    /\ dry_run /\ runpc = "returned" /\ Len(missing_subcategories) = 3

\* what the cap does guarantee: a cap of 1 or more is an upper bound on the
\* number of subsections scraped, which are the first entries of the worklist
CapRespectedWhenPositive ==
    (max_subcategories # <<>> /\ max_subcategories[1] >= 1)
        => /\ Len(attempted) <= max_subcategories[1]
           /\ IsPrefix(attempted, Named(worklist))

\* C14 as stated: with a cap k >= 0 at most k subsections are scraped, and
\* they are the first entries of the worklist in worklist order
C14_AtMostCapScraped ==
    (max_subcategories # <<>> /\ max_subcategories[1] >= 0)
        => /\ Len(attempted) <= max_subcategories[1]
           /\ IsPrefix(attempted, Named(worklist))

\* ------------------------------------------------ record store properties
LastSave == saveOutcomes[Len(saveOutcomes)]
\* the latest save of a video scraper ran to its end
SavedVideos == saveOutcomes # <<>> /\ LastSave = "ok" /\ variant # "image"
UrlOf(rec) == Get(rec, "video_url", "")
\* positions of a record set whose record has no URL or is the first with its URL
Kept(data) ==
    {j \in 1..Len(data) :
        ~Truthy(UrlOf(data[j])) \/ \A m \in 1..(j - 1) : UrlOf(data[m]) # UrlOf(data[j])}
\* the n-th position of a set of positions, counted from the front
Nth(K, n) == CHOOSE k \in K : Cardinality({m \in K : m < k}) = n - 1
\* the same URL and the same prompt, or the same lack of them
SameMedia(a, b) ==
    /\ Get(a, "video_url", "absent") = Get(b, "video_url", "absent")
    /\ Get(a, "prompt", "absent") = Get(b, "prompt", "absent")
DistinctUrls(data) ==
    \A a, b \in 1..Len(data) :
        (a # b /\ Truthy(UrlOf(data[a]))) => UrlOf(data[a]) # UrlOf(data[b])

\* C15: what save_videos_data persists has pairwise distinct non-empty
\* video_url values: it is the input with, for each non-empty URL, only the
\* first record kept, every record with an empty or missing URL retained, and
\* the order of the input preserved
C15_FirstOfEachUrlKept ==
    SavedVideos =>
        LET K == Kept(videos_data)
        IN  /\ Len(store) = Cardinality(K)
            /\ \A n \in 1..Len(store) : SameMedia(store[n], videos_data[Nth(K, n)])
            /\ DistinctUrls(store)

\* C15 witness: records with the URLs u1, u1, '' and no URL were saved: three
\* are persisted, the first of them the first u1 record
C15_Witness ==
    /\ SavedVideos
    /\ videos_data = <<MediaRecord(variant, "http://u1", "p1"),
                       MediaRecord(variant, "http://u1", "p2"),
                       MediaRecord(variant, "", "p1"), [prompt |-> "p1"]>>
    /\ Len(store) = 3 /\ store[1].prompt = "p1"

\* C16: deduplication by URL is idempotent: a second save_videos_data of the
\* same record set leaves the same persisted records as the first, and the
\* dedup pass applied to what was persisted removes no further record
C16_DedupIdempotent ==
    /\ (variant # "image" /\ saveOutcomes = <<"ok", "ok">>)
           => /\ store = before[1]
              /\ csv_file = before[2]
    /\ SavedVideos => unique_videos(store, {}) = store

\* C16 witness: a set with a repeated URL was saved twice, and fewer records
\* than it holds are persisted
C16_Witness ==
    /\ variant # "image" /\ saveOutcomes = <<"ok", "ok">>
    /\ Len(store) < Len(videos_data) /\ Len(store) >= 2

\* a URL made up by the scrape for an item that gave none
IsPlaceholder(u) == Len(u) >= 18 /\ SubSeq(u, 1, 18) = "placeholder_video_"
NonColliding(rec) == ~Truthy(UrlOf(rec)) \/ IsPlaceholder(UrlOf(rec))
NonCollidingIn(data) == {j \in 1..Len(data) : NonColliding(data[j])}

\* C17 as stated: the dedup pass of save_videos_data never drops a record
\* whose URL is empty or a placeholder token: all of them are persisted, also
\* two that carry the same token
C17_PlaceholdersNeverCollide ==
    SavedVideos =>
        Cardinality(NonCollidingIn(store)) = Cardinality(NonCollidingIn(videos_data))

\* -------------------------------------------- image record set properties
\* the records of the image scraper, whose URL field is image_url
ImageRecord(rec) ==
    [image_url |-> rec.video_url, prompt |-> rec.prompt,
     figure_index |-> rec.figure_index, figure_id |-> rec.figure_id]
\* what save_images_data persists in images.json for the records the scrape returned
PersistedImages ==
    images_json([j \in 1..Len(videos_data) |-> ImageRecord(videos_data[j])], 1).images

\* C18 as stated: the records the image scraper persists for a subsection
\* (scrape_single_subcategory, then save_images_data) never hold the same
\* non-empty image_url twice
C18_ImageUrlsDistinct ==
    (variant = "image" /\ pc = "returned") =>
        \A a, b \in 1..Len(PersistedImages) :
            (a # b /\ Truthy(PersistedImages[a].image_url))
                => PersistedImages[a].image_url # PersistedImages[b].image_url

\* ------------------------------------------------- file format properties
Provenance == {"figure_index", "figure_id"}
\* the latest save ran to its end
Completed == saveOutcomes # <<>> /\ LastSave = "ok"
\* the records of the JSON file and the CSV file of the variant at work
JsonRecords == IF variant = "image" THEN images_file.json.images ELSE store
CsvOfVariant == IF variant = "image" THEN images_file.csv ELSE csv_file
\* records without provenance fields, and a CSV file with one row per record,
\* in the same order, holding the record's fields under a header that is the
\* sorted union of the field names
FilesAsSpecified(records, csv) ==
    /\ \A j \in 1..Len(records) : DOMAIN records[j] \cap Provenance = {}
    /\ csv.header = sorted(UNION {DOMAIN records[j] : j \in 1..Len(records)})
    /\ Len(csv.rows) = Len(records)
    /\ \A j \in 1..Len(records) :
          \A f \in DOMAIN csv.rows[j] :
              csv.rows[j][f] = IF f \in DOMAIN records[j] THEN CsvText(records[j][f])
                               ELSE ""

\* what holds of the two video scrapers: videos.json and videos.csv are as specified
VideoFilesAsSpecified == SavedVideos => FilesAsSpecified(store, csv_file)

\* C19 as stated: after a save of any scraper variant the JSON file holds the
\* records without figure_index and figure_id, and the CSV file holds the same
\* rows under a header that is the sorted union of the records' field names
C19_StrippedRecordsSortedHeader == Completed => FilesAsSpecified(JsonRecords, CsvOfVariant)

\* C20: a save of a non-empty record set overwrites videos.json and videos.csv
\* as a whole: afterwards they hold exactly the deduplicated new set, every
\* persisted record is one of the new set and none is left from the files as
\* they were; a save of an empty set writes nothing and leaves the files as
\* they were
C20_OverwrittenWholesale ==
    /\ SavedVideos =>
          /\ Len(store) = Cardinality(Kept(videos_data))
          /\ \A j \in 1..Len(store) :
                \E m \in 1..Len(videos_data) : SameMedia(store[j], videos_data[m])
          /\ csv_file = videos_csv(store)
    /\ (saveOutcomes # <<>> /\ videos_data = <<>>)
          => <<store, csv_file, images_file>> = before

\* C20 witness: the subsection had a record file of an earlier scrape, a new
\* set of two records was saved, and the old record is gone
C20_Witness ==
    /\ SavedVideos /\ saveOutcomes = <<"ok">>
    /\ before[1] = <<OldRecord(variant)>>
    /\ Len(videos_data) = 2 /\ Len(store) = 2
    /\ \A j \in 1..Len(store) : store[j] # OldRecord(variant)

\* ---------------------------------------------- catalog writer properties
\* the entry at position j had an analysis of its record file
Touched(j) == MatchingData(metaBefore.sub_categories[j].name) # 0
SameBut(a, b, field) ==
    /\ DOMAIN a \ {field} = DOMAIN b \ {field}
    /\ \A f \in DOMAIN a \ {field} : a[f] = b[f]

\* what update_metadata_json does preserve: the number and order of the
\* entries, and every field of every entry other than video_count
OnlyCountsWritten ==
    updateResult = "True" =>
        /\ Len(metadata.sub_categories) = Len(metaBefore.sub_categories)
        /\ \A j \in 1..Len(metadata.sub_categories) :
              SameBut(metadata.sub_categories[j], metaBefore.sub_categories[j],
                      "video_count")

\* C21 as stated: update_metadata_json leaves every entry for which no record
\* file was analysed unchanged in all its fields, its stored count included,
\* changes only the count of an entry that was, and keeps number, order, name
\* and link of the entries
C21_SiblingsUnchanged ==
    updateResult = "True" =>
        /\ Len(metadata.sub_categories) = Len(metaBefore.sub_categories)
        /\ \A j \in 1..Len(metadata.sub_categories) :
              /\ SameBut(metadata.sub_categories[j], metaBefore.sub_categories[j],
                         "video_count")
              /\ ~Touched(j) =>
                    metadata.sub_categories[j] = metaBefore.sub_categories[j]

\* ---------------------------------------------- content loader properties
\* C22 as stated: scroll_to_load_all_content always returns without raising,
\* whatever the page does: once the loader is entered, the scrape gets to
\* enumerate the items
C22_LoaderAlwaysReturns == (pc = "scroll_load") ~> (pc = "enumerate")


\* hard cap of the scroll loop, per variant (simple_scraper has none)
max_scroll_attempts(v) == IF v = "range" THEN MaxScrollRange ELSE MaxScrollImage

\* the loop of the loader ended by its own condition or by its break
LoopEnded(v) == variant = v /\ loaderExit \in {"end", "break"}

\* the stop rule the image variant implements
StopRule(v) ==
    /\ variant = v => passes <= max_scroll_attempts(v) /\ unchangedRun <= StableNeeded
    /\ LoopEnded(v) => unchangedRun = StableNeeded \/ passes = max_scroll_attempts(v)

ImageStopRule == StopRule("image")

\* C23 as stated: in the range and the image variant the scroll loop ends
\* exactly when the page extent was unchanged on 3 consecutive passes or the
\* hard cap of passes (15 image, 10 range) is reached, and it never makes
\* more passes than the cap
C23_StopsOnStableOrCap == StopRule("image") /\ StopRule("range")


\* ------------------------------------------------------------ browser session properties
\* C24 as stated: once run_automated_scraping has left, by returning or by
\* an exception, a browser session that was created has been terminated
C24_SessionTerminatedOnExit == runpc \in {"returned", "raised"} => driver # "open"


\* C25 as stated: no subsection scrape runs on a browser instance on which
\* a driver call of an earlier scrape has raised
C25_StaleSessionNeverReused == ~scrapedOnStale


\* ------------------------------------------------------------ cancellation properties
\* C26 as stated: once the interrupt was delivered, no detail view of an
\* item other than the one in flight at that moment is opened
C26_NoNewOpenAfterInterrupt ==
    [][signalledAt # <<>> => opened' \ opened \subseteq {signalledAt[1]}]_vars


\* C27 as stated: when the interrupt has ended the scrape of a subsection,
\* the records accumulated for its completed items are in the record store
C27_PartialResultsPersisted ==
    (wpc = "interrupted" /\ videos_data # <<>>) => store = save_videos_data(videos_data)


\* ------------------------------------------------------------ click visibility properties
\* C28 as stated: a click that opens the detail view of an item is made at
\* the position that follows the scroll-into-view of that item, and that
\* position is entered from the scroll-into-view step only (simple_scraper
\* and range_scraper; image_scraper scrolls at the top of the iteration)
C28_ScrollBeforeEveryOpen ==
    [][/\ opened' # opened => pc = "click"
       /\ (variant # "image" /\ pc' = "click") => pc = "scroll"]_vars


\* ------------------------------------------------------------ item enumerator properties
\* the first strategy tried for which field (what the selector matched, or
\* what the strategy handed over) is at least 1; 0 when there is none
FirstWith(field) ==
    LET S == {k \in 1..Len(tried) : tried[k][field] >= 1}
    IN  IF S = {} THEN 0 ELSE CHOOSE k \in S : \A m \in S : k <= m

\* the strategies are tried in their fixed order, none is skipped
TriedInOrder == \A k \in 1..Len(tried) : tried[k].strategy = k

C30_PromptTextOrSentinel ==
    \A j \in 1..Len(videos_data) :
        videos_data[j].prompt \in Prompts \cup {"No prompt found"}

\* ------------------------------------------------------------ low-count report properties
\* what was written, per category: the names and counts in written order
Written(res) ==
    [k \in 1..Len(res) |->
        [key |-> res[k].category_name,
         value |-> [j \in 1..Len(res[k].low_count_subcategories) |->
                      [name |-> res[k].low_count_subcategories[j].name,
                       video_count |-> res[k].low_count_subcategories[j].video_count]]]]

\* C31: the report round-trips: what parse_low_video_count_file reads from
\* the file save_results_to_file wrote is, per category, exactly the written
\* subsection names and counts in the same order, nothing lost, added or merged
C31_ReportRoundTrips == lpc = "parsed" => low_count_data = Written(results)

\* ------------------------------------------------------------ record synthesis properties
\* the media URL chosen in the fixed order, the last resort built from pos
ChosenUrl(v, d, fig_url, fid, pos) ==
    IF DataTruthy(d) /\ Truthy(d.video_url) THEN d.video_url
    ELSE IF Truthy(fig_url) THEN fig_url
    ELSE IF Truthy(fid) THEN PlaceholderPrefix(v) \o fid
    ELSE PlaceholderPrefix(v) \o ToString(pos)

\* C32: the media URL of a synthesized record is the URL extracted from the
\* detail view if non-empty, else the item's own visible media URL, else the
\* placeholder built from the recovered identifier, else the placeholder
\* built from the item's 1-based position in enumeration order
C32_MediaUrlOrder ==
    appended # <<>> =>
        appended[1].video_url =
            ChosenUrl(variant, popup_data, own_url, own_id,
                      ActualIndex(variant, total_figures, loop_index))

\* ------------------------------------------------------------ source index properties
\* C33: every record's figure_index is the 1-based position of its item in
\* the enumerated order, so the indices of one subsection's records are
\* pairwise distinct, on the direct path and after the retry loop alike
C33_SourceIndexIsPosition ==
    /\ \A j \in 1..Len(videos_data) :
          j <= Len(recItem) =>
             videos_data[j].figure_index = ActualIndex(variant, nfig, recItem[j] - 1)
    /\ \A j, k \in 1..Len(videos_data) :
          j # k => videos_data[j].figure_index # videos_data[k].figure_index

\* ------------------------------------------------------------ page opening properties
\* the calls of the history other than the alternative discovery methods
LoadAndScanCalls ==
    LET kept == SelectSeq(calls, LAMBDA c : c.call # "alternative")
    IN  [k \in 1..Len(kept) |-> kept[k].call]

\* C34: when the primary cascade yields zero items, exactly one additional
\* reload-and-rescan cycle (an extra wait, the content loader again, the
\* cascade again) is performed before the scrape returns an empty result
C34_OneRescanBeforeEmpty ==
    opc = "returned_empty" =>
        LoadAndScanCalls = <<"loader", "cascade", "wait", "loader", "cascade">>

\* ------------------------------------------------------------ range selection properties
\* the positions a request asks for, clipped to 1..max
PartPositions(p, max) ==
    IF p.kind = "single" THEN {p.a} \cap 1..max
    ELSE IF p.kind = "range"
    THEN {n \in 1..max : (p.a <= n /\ n <= p.b) \/ (p.b <= n /\ n <= p.a)}
    ELSE {}
AsksForAll(r) ==
    Len(r) = 1 /\ (r[1].kind \in {"all", " ALL "} \/ (r[1].kind = "single" /\ r[1].a = 0))
RequestedPositions(r, max) ==
    IF AsksForAll(r) THEN 1..max
    ELSE UNION {PartPositions(r[k], max) : k \in 1..Len(r)}

StrictlyAscending(seq) == \A j, k \in 1..Len(seq) : j < k => seq[j] < seq[k]
SeqRange(seq) == {seq[k] : k \in 1..Len(seq)}

\* the list parse_range_input returned is the request: strictly ascending,
\* within 1..max, "0" or "all" everything, a-b every in-bounds integer between
\* a and b whichever is larger, parts unioned, malformed and out-of-bounds
\* parts nothing
ParsedAsRequested ==
    /\ StrictlyAscending(video_range)
    /\ SeqRange(video_range) \subseteq 1..max_videos
    /\ SeqRange(video_range) = RequestedPositions(request, max_videos)

\* C35 as stated: parse_range_input returns the requested positions in
\* strictly ascending order, and the range scraper then processes exactly
\* those positions, each once, in ascending order
C35_ProcessesParsedRange ==
    gpc = "done" => ParsedAsRequested /\ handled = video_range

\* C35, amended: parse_range_input returns the requested positions in
\* strictly ascending order, and the range scraper then processes, each once
\* and in ascending order, exactly those of them that do not exceed the
\* number of figures its own enumeration found
C35_ProcessesParsedRangeOnPage ==
    gpc = "done" =>
        /\ ParsedAsRequested
        /\ handled = SelectSeq(video_range, LAMBDA p : p <= num_figures)

\* a swapped range was parsed against more positions than the page shows
C35_Witness ==
    /\ gpc = "done"
    /\ \E k \in 1..Len(request) : request[k].kind = "range" /\ request[k].a > request[k].b
    /\ handled # <<>> /\ Len(handled) < Len(video_range)

\* ------------------------------------------------------------ media URL extraction properties
\* C36: every media URL the detail extractor returns starts with an http(s)
\* scheme and does not end in .svg, whichever step of the cascade produced it
C36_ExtractedUrlAccepted ==
    (xpc = "extracted" /\ Truthy(found_url)) =>
        /\ startswith(found_url, "http://") \/ startswith(found_url, "https://")
        /\ ~endswith(found_url, ".svg")

\* ------------------------------------------------------------ storage path properties
\* C37: after a worklist entry was scraped and more than 2 unique records
\* were persisted for it, the records are at the entry's target path and the
\* next reconciliation pass classifies the subsection as populated, for every
\* category and subsection name and for both catalog layouts
C37_SavedWhereReconcilerLooks ==
    (ppc = "scanned" /\ saved_count > PopulatedAbove /\ layout \in {"root", "child"}) =>
        /\ saved_to = entry.path
        /\ status_after = "populated"

\* ------------------------------------------------------------ run counter properties
\* the entries whose processing has finished, by returning or by raising an
\* Exception (an interrupted scrape has not finished)
Finished == {j \in 1..Len(outcomes) : outcomes[j] # "KeyboardInterrupt"}
Succeeded == {j \in 1..Len(outcomes) : outcomes[j] = "True"}

\* C38: at every point of the worklist loop processed_count + failed_count
\* is the number of worklist entries whose processing has finished, each
\* finished entry is counted in exactly one of the two counters, and after an
\* uninterrupted run the sum is the length of the worklist
C38_CountersCoverFinished ==
    /\ processed_count + failed_count = Cardinality(Finished)
    /\ processed_count = Cardinality(Succeeded)
    /\ failed_count = Cardinality(Finished \ Succeeded)
    /\ (LoopLeft /\ ~dry_run /\ ~interrupted)
           => processed_count + failed_count = Len(missing_subcategories)

\* C38 witness: an uninterrupted run over three entries has returned, two of
\* them succeeded, one raised
C38_Witness ==
    /\ runpc = "returned" /\ ~interrupted /\ ~dry_run
    /\ Len(missing_subcategories) = 3
    /\ processed_count = 2 /\ failed_count = 1
    /\ \E j \in 1..Len(outcomes) : outcomes[j] = "Exception"

====
